---- MODULE Spec2Model ----
(***************************************************************************)
(* RallyCoach strategy engine: scoring engine, recommendation generator    *)
(* and the rally analysis pipeline around them.                            *)
(*                                                                         *)
(* Numbers.  The engine computes with JavaScript doubles; the model uses   *)
(* exact integers on fixed scales:                                         *)
(*   - factor scores (movement, open court, risk, angle) and rationale     *)
(*     impacts are numerators over FactorScale (1.0 = 200000), so that     *)
(*     base * (1 + 0.5 * pressure) * phaseMultiplier is exact;             *)
(*   - pressure, recoveryQuality, confidence and the lookup tables are in  *)
(*     hundredths (1.0 = 100);                                             *)
(*   - court coordinates are in 1/300 of the court (1.0 = 300), path       *)
(*     heights in 1/2500 (1.0 = 2500);                                     *)
(*   - score is the integer Math.round gives.                              *)
(***************************************************************************)
EXTENDS Integers, Sequences, FiniteSets, TLC

VARIABLES
  op,          \* the operation that produced the outputs, "init" before any call
  shot,        \* input: the ShotSegment handed to generateRecommendations
  features,    \* input: ShotFeatures
  rallyState,  \* input: RallyState
  weights,     \* input: ScoringWeights
  candidates,  \* input: unscored recommendations handed to the scoring engine
  trajectory,  \* input: TrajectoryPoint[] handed to the rally entry points
  opponentPosition, \* input: the optional position handed to generateRecommendationsForShot
  shotIndex,   \* input: index handed to generateRecommendationsForShot
  clock,       \* environment: what Date.now() returns
  random,      \* environment: what the next Math.random() returns
  result,      \* output: the ShotRecommendation[] of the last scoring/generation call
  path,        \* output: the PathPoint[] of the last generateShotPath call
  runs,        \* output: the RallyAnalysisResult of every analyzeRally call so far
  args,        \* input: the arguments of a call of one of the engine's leaf functions
  ret,         \* output: what that call returned
  engine,      \* the PlaybackEngineRefs object: the current value of each ref
  previousUpdate \* history: the last updatePlaybackTime call since creation or reset

vars == <<op, shot, features, rallyState, weights, candidates, trajectory,
          opponentPosition, shotIndex, clock, random, result, path, runs, args, ret,
          engine, previousUpdate>>

----------------------------------------------------------------------------
(* Scales *)

\* base risk in hundredths * pressure multiplier in 1/200 * phase multiplier in tenths
FactorScale == 100 * 200 * 10

\* thirds of the court and fifths of a path between multiples of 1/60
CoordScale == 3 * 100

\* height factor in hundredths * 4t(1-t) in 1/25
HeightScale == 100 * 25

Min(a, b) == IF a < b THEN a ELSE b

Max(a, b) == IF a > b THEN a ELSE b

Abs(a) == IF a < 0 THEN -a ELSE a

Includes(s, x) == \E i \in 1..Len(s) : s[i] = x

Zones == 0..8

Phases == {"attack", "neutral", "defense"}

ShotTypes == {"clear", "drop", "smash", "drive", "net", "lift", "serve", "push", "unknown"}

----------------------------------------------------------------------------
(* constants.ts (not among the sources; values follow the specification    *)
(* and the README's weight table)                                          *)

BASE_SCORE == 50

MIN_SCORE == 0

MAX_SCORE == 100

DEFAULT_SCORING_WEIGHTS ==
  [movementPressure |-> 20, openCourt |-> 25, riskUnderPressure |-> 15, angleExposure |-> 10]

\* PRESSURE_THRESHOLDS, in hundredths
PRESSURE_THRESHOLDS == [attack |-> 30, defense |-> 70]

\* phase-appropriate repertoires, in candidate generation order
VIABLE_SHOTS_BY_PHASE ==
  [attack  |-> <<"smash", "drop", "net", "drive">>,
   neutral |-> <<"clear", "drop", "drive", "net", "lift", "push">>,
   defense |-> <<"clear", "lift", "drive", "net">>]

\* base risk per shot type, in hundredths
SHOT_RISK_LEVELS ==
  [smash |-> 70, drop |-> 50, net |-> 60, drive |-> 40, clear |-> 20, lift |-> 20,
   push |-> 30, serve |-> 30]

\* peak-height factor per shot type, in hundredths (clears highest, drives flattest)
SHOT_HEIGHT_PROXY ==
  [clear |-> 90, lift |-> 80, drop |-> 50, net |-> 30, smash |-> 40, push |-> 30,
   serve |-> 60, drive |-> 20]

\* base angle exposure per target zone, in hundredths
ANGLE_RISK_BY_ZONE == [z \in Zones |->
  IF z = 4 THEN 60 ELSE IF z \in {1, 3, 5, 7} THEN 40 ELSE 20]

\* normalized grid distance between zones, in hundredths: monotonic with the
\* Euclidean distance between the zone centers (0, 1, sqrt 2, 2, sqrt 5, sqrt 8)
GridDistance(dr, dc) ==
  LET q == dr * dr + dc * dc
  IN  IF q = 0 THEN 0 ELSE IF q = 1 THEN 35 ELSE IF q = 2 THEN 50
      ELSE IF q = 4 THEN 71 ELSE IF q = 5 THEN 79 ELSE 100

ZONE_DISTANCES == [a \in Zones |-> [b \in Zones |->
  GridDistance(Abs((a \div 3) - (b \div 3)), Abs((a % 3) - (b % 3)))]]

\* centre of a zone's rectangle: columns are thirds of the width, rows are
\* thirds of the half court y in [0.5, 1]
ZONE_CENTERS == [z \in Zones |->
  [x |-> 50 + 100 * (z % 3), y |-> 175 + 50 * (z \div 3)]]

\* rally-state-machine.ts zoneToPosition: out-of-range ids give the centre zone
zoneToPosition(zone) == IF zone \in Zones THEN ZONE_CENTERS[zone] ELSE ZONE_CENTERS[4]

----------------------------------------------------------------------------
(* scoring-engine.ts *)

\* x ?? d on a table lookup
Lookup(table, key, default) == IF key \in DOMAIN table THEN table[key] ELSE default

Clamp(lo, x, hi) == Min(hi, Max(lo, x))

\* Math.round of num/den for den > 0 (half rounds up)
Round(num, den) == (2 * num + den) \div (2 * den)

calculateMovementPressureScore(targetZone, f) ==
  LET zoneDistance == IF f.landingZone \in Zones /\ targetZone \in Zones
                      THEN ZONE_DISTANCES[f.landingZone][targetZone] ELSE 50
      momentumFactor == f.opponentDirectionChange
      score == (zoneDistance * 7 + momentumFactor * 3) * (FactorScale \div 1000)
  IN  Clamp(0, score, FactorScale)

calculateOpenCourtScore(targetZone, rs) ==
  IF Includes(rs.openCourtZones, targetZone)
  THEN LET cornerBonus == IF targetZone \in {0, 2, 6, 8} THEN 2 * (FactorScale \div 10) ELSE 0
       IN  Min(FactorScale, 8 * (FactorScale \div 10) + cornerBonus)
  ELSE IF \E i \in 1..Len(rs.openCourtZones) :
             LET diff == Abs(targetZone - rs.openCourtZones[i])
             IN  diff = 1 \/ diff = 3
       THEN 4 * (FactorScale \div 10)
       ELSE FactorScale \div 10

\* mutant: the risk read as a safety level (1 - risk)
assessShotRisk_Inverted(shotType, rs) ==
  LET baseRisk == Lookup(SHOT_RISK_LEVELS, shotType, 50)
      pressureMultiplier == 200 + rs.pressure
      phaseMultiplier ==
        IF rs.phase = "defense"
        THEN (IF shotType \in {"smash", "drop", "net"} THEN 13 ELSE 10)
        ELSE IF rs.phase = "attack"
             THEN (IF shotType \in {"clear", "lift"} THEN 8 ELSE 10)
             ELSE 10
      adjustedRisk == baseRisk * pressureMultiplier * phaseMultiplier
  IN  FactorScale - Clamp(0, adjustedRisk, FactorScale)

assessShotRisk(shotType, rs) ==
  LET baseRisk == Lookup(SHOT_RISK_LEVELS, shotType, 50)
      pressureMultiplier == 200 + rs.pressure
      phaseMultiplier ==
        IF rs.phase = "defense"
        THEN (IF shotType \in {"smash", "drop", "net"} THEN 13 ELSE 10)
        ELSE IF rs.phase = "attack"
             THEN (IF shotType \in {"clear", "lift"} THEN 8 ELSE 10)
             ELSE 10
      adjustedRisk == baseRisk * pressureMultiplier * phaseMultiplier
  IN  Clamp(0, adjustedRisk, FactorScale)

calculateAngleExposure(targetZone, shotType) ==
  LET baseAngleRisk == Lookup(ANGLE_RISK_BY_ZONE, targetZone, 50)
      m1 == IF shotType \in {"drop", "net"} /\ targetZone \in {1, 4} THEN 13 ELSE 10
      shotTypeMultiplier == IF shotType = "clear" /\ targetZone \in {6, 8} THEN 7 ELSE m1
      angleRisk == baseAngleRisk * shotTypeMultiplier * (FactorScale \div 1000)
  IN  Clamp(0, angleRisk, FactorScale)

\* mutant: the confidence drops from the defense threshold on, and rises with
\* a recovery quality up to 0.3
calculateConfidence_AtThreshold(shotType, rs, f) ==
  LET c0 == 75
      c1 == IF rs.phase = "attack" /\ shotType \in {"smash", "drop", "net"} THEN c0 + 10
            ELSE IF rs.phase = "defense" /\ shotType \in {"clear", "lift"} THEN c0 + 10
            ELSE c0
      c2 == IF rs.pressure >= PRESSURE_THRESHOLDS.defense THEN c1 - 10 ELSE c1
      c3 == IF f.recoveryQuality <= 30 THEN c2 + 5 ELSE c2
  IN  Min(100, Max(50, c3))

\* mutant: the pressure itself is taken off and the result clamped to [0, 1]
calculateConfidence_PressureOff(shotType, rs, f) ==
  LET c0 == 75
      c1 == IF rs.phase = "attack" /\ shotType \in {"smash", "drop", "net"} THEN c0 + 10
            ELSE IF rs.phase = "defense" /\ shotType \in {"clear", "lift"} THEN c0 + 10
            ELSE c0
      c2 == IF rs.pressure > PRESSURE_THRESHOLDS.defense THEN c1 - rs.pressure ELSE c1
      c3 == IF f.recoveryQuality < 30 THEN c2 + 5 ELSE c2
  IN  Min(100, Max(0, c3))

calculateConfidence(shotType, rs, f) ==
  LET c0 == 75
      c1 == IF rs.phase = "attack" /\ shotType \in {"smash", "drop", "net"} THEN c0 + 10
            ELSE IF rs.phase = "defense" /\ shotType \in {"clear", "lift"} THEN c0 + 10
            ELSE c0
      c2 == IF rs.pressure > PRESSURE_THRESHOLDS.defense THEN c1 - 10 ELSE c1
      c3 == IF f.recoveryQuality < 30 THEN c2 + 5 ELSE c2
  IN  Min(100, Max(50, c3))

buildRationale(targetZone, shotType, f, rs, movementScore, openCourtScore, riskScore, angleRisk) ==
  LET half == FactorScale \div 2
      tenth == FactorScale \div 10
      movement ==
        IF movementScore > half
        THEN <<[type |-> "movement_pressure",
                description |-> IF movementScore > 7 * tenth
                                THEN "Forces significant opponent movement"
                                ELSE "Increases opponent movement distance",
                impact |-> movementScore]>>
        ELSE <<>>
      open ==
        IF openCourtScore > half
        THEN <<[type |-> "open_court",
                description |-> IF openCourtScore > 7 * tenth
                                THEN "Targets undefended court area"
                                ELSE "Exploits partial court opening",
                impact |-> openCourtScore]>>
        ELSE <<>>
      risk ==
        IF rs.pressure > PRESSURE_THRESHOLDS.defense /\ riskScore > half
        THEN <<[type |-> "risk_reduction",
                description |-> "Higher risk shot under pressure situation",
                impact |-> -riskScore]>>
        ELSE IF riskScore < 3 * tenth /\ rs.phase = "defense"
             THEN <<[type |-> "risk_reduction",
                     description |-> "Safe shot to reset the rally",
                     impact |-> FactorScale - riskScore]>>
             ELSE <<>>
      angle ==
        IF angleRisk > 4 * tenth
        THEN <<[type |-> "angle_denial",
                description |-> IF angleRisk > 6 * tenth
                                THEN "May expose court to counter-attack angles"
                                ELSE "Moderate angle exposure to opponent",
                impact |-> -angleRisk]>>
        ELSE <<>>
      recovery ==
        IF shotType \in {"clear", "lift"} /\ f.recoveryQuality > 40
        THEN <<[type |-> "recovery_time",
                description |-> "Provides time to recover court position",
                impact |-> half]>>
        ELSE <<>>
  IN  movement \o open \o risk \o angle \o recovery

\* mutant: the clamp to [MIN_SCORE, MAX_SCORE] left out
ClampedScore_NoClamp(rec, f, rs, w) ==
  LET movementScore == calculateMovementPressureScore(rec.targetZone, f)
      openCourtScore == calculateOpenCourtScore(rec.targetZone, rs)
      riskScore == assessShotRisk(rec.shotType, rs)
      angleRisk == calculateAngleExposure(rec.targetZone, rec.shotType)
      s0 == BASE_SCORE * FactorScale
      s1 == s0 + movementScore * w.movementPressure
      s2 == s1 + openCourtScore * w.openCourt
      s3 == IF rs.pressure > PRESSURE_THRESHOLDS.attack
            THEN s2 - riskScore * w.riskUnderPressure
            ELSE s2
  IN  s3 - angleRisk * w.angleExposure

\* mutant: the risk penalty at every pressure
ClampedScore_AlwaysRisk(rec, f, rs, w) ==
  LET movementScore == calculateMovementPressureScore(rec.targetZone, f)
      openCourtScore == calculateOpenCourtScore(rec.targetZone, rs)
      riskScore == assessShotRisk(rec.shotType, rs)
      angleRisk == calculateAngleExposure(rec.targetZone, rec.shotType)
      s0 == BASE_SCORE * FactorScale
      s1 == s0 + movementScore * w.movementPressure
      s2 == s1 + openCourtScore * w.openCourt
      s3 == s2 - riskScore * w.riskUnderPressure
      s4 == s3 - angleRisk * w.angleExposure
  IN  Min(MAX_SCORE * FactorScale, Max(MIN_SCORE * FactorScale, s4))

\* the score before Math.round, as a numerator over FactorScale
ClampedScore(rec, f, rs, w) ==
  LET movementScore == calculateMovementPressureScore(rec.targetZone, f)
      openCourtScore == calculateOpenCourtScore(rec.targetZone, rs)
      riskScore == assessShotRisk(rec.shotType, rs)
      angleRisk == calculateAngleExposure(rec.targetZone, rec.shotType)
      s0 == BASE_SCORE * FactorScale
      s1 == s0 + movementScore * w.movementPressure
      s2 == s1 + openCourtScore * w.openCourt
      s3 == IF rs.pressure > PRESSURE_THRESHOLDS.attack
            THEN s2 - riskScore * w.riskUnderPressure
            ELSE s2
      s4 == s3 - angleRisk * w.angleExposure
  IN  Min(MAX_SCORE * FactorScale, Max(MIN_SCORE * FactorScale, s4))

scoreRecommendation(rec, f, rs, w) ==
  [id |-> rec.id,
   shotType |-> rec.shotType,
   targetZone |-> rec.targetZone,
   pathPolyline |-> rec.pathPolyline,
   score |-> Round(ClampedScore(rec, f, rs, w), FactorScale),
   rationale |-> buildRationale(rec.targetZone, rec.shotType, f, rs,
                   calculateMovementPressureScore(rec.targetZone, f),
                   calculateOpenCourtScore(rec.targetZone, rs),
                   assessShotRisk(rec.shotType, rs),
                   calculateAngleExposure(rec.targetZone, rec.shotType)),
   confidence |-> calculateConfidence(rec.shotType, rs, f)]

\* mutant: equal scores are ordered by the random part of the id
RECURSIVE InsertByScore_TieById(_, _)
InsertByScore_TieById(sorted, r) ==
  IF sorted = <<>> THEN <<r>>
  ELSE IF \/ Head(sorted).score > r.score
          \/ Head(sorted).score = r.score /\ Head(sorted).id[5] <= r.id[5]
       THEN <<Head(sorted)>> \o InsertByScore_TieById(Tail(sorted), r)
       ELSE <<r>> \o sorted

\* mutant: a sort that puts an element in front of the earlier ones of its score
RECURSIVE InsertByScore_Unstable(_, _)
InsertByScore_Unstable(sorted, r) ==
  IF sorted = <<>> THEN <<r>>
  ELSE IF Head(sorted).score > r.score
       THEN <<Head(sorted)>> \o InsertByScore_Unstable(Tail(sorted), r)
       ELSE <<r>> \o sorted

\* Array.prototype.sort with comparator (a, b) => b.score - a.score: a stable
\* sort, so an element goes behind every earlier one whose score is not lower
RECURSIVE InsertByScore(_, _)
InsertByScore(sorted, r) ==
  IF sorted = <<>> THEN <<r>>
  ELSE IF Head(sorted).score >= r.score
       THEN <<Head(sorted)>> \o InsertByScore(Tail(sorted), r)
       ELSE <<r>> \o sorted

RECURSIVE SortByScoreDesc(_)
SortByScoreDesc(s) ==
  IF s = <<>> THEN <<>>
  ELSE InsertByScore(SortByScoreDesc(SubSeq(s, 1, Len(s) - 1)), s[Len(s)])

\* mutant: comparator (a, b) => a.score - b.score
RECURSIVE InsertByScoreAsc(_, _)
InsertByScoreAsc(sorted, r) ==
  IF sorted = <<>> THEN <<r>>
  ELSE IF Head(sorted).score <= r.score
       THEN <<Head(sorted)>> \o InsertByScoreAsc(Tail(sorted), r)
       ELSE <<r>> \o sorted

RECURSIVE SortByScoreAsc(_)
SortByScoreAsc(s) ==
  IF s = <<>> THEN <<>>
  ELSE InsertByScoreAsc(SortByScoreAsc(SubSeq(s, 1, Len(s) - 1)), s[Len(s)])

scoreAndRankRecommendations_Ascending(recs, f, rs, w) ==
  SortByScoreAsc([i \in 1..Len(recs) |-> scoreRecommendation(recs[i], f, rs, w)])

scoreAndRankRecommendations(recs, f, rs, w) ==
  SortByScoreDesc([i \in 1..Len(recs) |-> scoreRecommendation(recs[i], f, rs, w)])

----------------------------------------------------------------------------
(* PlaybackEngine: timestamps in ms, timeScale in quarters (0.25, 0.5, 1,  *)
(* 2 are 1, 2, 4, 8), t in units of 1/PlaybackScale, so that the increment  *)
(* dt * timeScale / 10 of dt seconds is (ms elapsed) * (quarters)           *)

PlaybackScale == 4 * 10000

TimeScales == {1, 2, 4, 8}

ActiveViews == {"2d", "3d"}

createPlaybackEngine ==
  [playing |-> TRUE, timeScale |-> 4, t |-> 0, activeView |-> "2d", lastTimestamp |-> 0]

getPlaybackState(e) ==
  [playing |-> e.playing, timeScale |-> e.timeScale, t |-> e.t, activeView |-> e.activeView]

\* mutant: t loops back only after passing 1
updatePlaybackTime_WrapAbove(e, timestamp) ==
  IF ~e.playing
  THEN [e EXCEPT !.lastTimestamp = timestamp]
  ELSE LET lastTimestamp == IF e.lastTimestamp = 0 THEN timestamp ELSE e.lastTimestamp
           increment == (timestamp - lastTimestamp) * e.timeScale
           t == e.t + increment
       IN  [e EXCEPT !.lastTimestamp = timestamp,
                     !.t = IF t > PlaybackScale THEN 0 ELSE t]

\* the engine after updatePlaybackTime(engine, timestamp), which returns its t;
\* lastTimestampRef.current || timestamp takes a last timestamp of 0 as none
updatePlaybackTime(e, timestamp) ==
  IF ~e.playing
  THEN [e EXCEPT !.lastTimestamp = timestamp]
  ELSE LET lastTimestamp == IF e.lastTimestamp = 0 THEN timestamp ELSE e.lastTimestamp
           increment == (timestamp - lastTimestamp) * e.timeScale
           t == e.t + increment
       IN  [e EXCEPT !.lastTimestamp = timestamp,
                     !.t = IF t >= PlaybackScale THEN 0 ELSE t]

play(e) == [e EXCEPT !.playing = TRUE]

pause(e) == [e EXCEPT !.playing = FALSE]

toggle(e) == [e EXCEPT !.playing = ~e.playing]

reset(e) == [e EXCEPT !.t = 0, !.lastTimestamp = 0]

setSpeed(e, speed) == [e EXCEPT !.timeScale = speed]

setActiveView(e, view) == [e EXCEPT !.activeView = view]

step(e, delta) == [e EXCEPT !.t = Max(0, Min(PlaybackScale, e.t + delta))]

\* no updatePlaybackTime call yet since the engine was created or reset
NoUpdate == [none |-> TRUE]

----------------------------------------------------------------------------
(* recommendation-generator.ts *)

\* the values Math.random() can return
RandomRange == 11

\* the k-th value Math.random() returns after the reading seed: the order of
\* the values differs from one reading to another
MathRandom(seed, k) == (seed * k) % RandomRange

\* generateRecId: the id embeds Date.now() and Math.random()
generateRecId(shotType, targetZone, now, rnd) == <<"rec", shotType, targetZone, now, rnd>>

\* mutant: the loop runs to i <= numPoints, one more interpolated point
generateShotPath_Inclusive(contactPoint, targetZone, shotType) ==
  LET target == zoneToPosition(targetZone)
      heightProxy == Lookup(SHOT_HEIGHT_PROXY, shotType, 50)
      numPoints == 5
      start == [x |-> contactPoint.x, y |-> contactPoint.y, z |-> HeightScale \div 2]
      mid == [i \in 1..numPoints |->
               [x |-> contactPoint.x + ((target.x - contactPoint.x) * i) \div numPoints,
                y |-> contactPoint.y + ((target.y - contactPoint.y) * i) \div numPoints,
                z |-> 3 * (HeightScale \div 10)
                      + heightProxy * 3 * 4 * i * (numPoints - i)]]
      end == [x |-> target.x, y |-> target.y, z |-> 2 * (HeightScale \div 10)]
  IN  <<start>> \o mid \o <<end>>

\* mutant: the end point is not pushed, the path stops at t = 0.8
generateShotPath_NoEnd(contactPoint, targetZone, shotType) ==
  LET target == zoneToPosition(targetZone)
      heightProxy == Lookup(SHOT_HEIGHT_PROXY, shotType, 50)
      numPoints == 5
      start == [x |-> contactPoint.x, y |-> contactPoint.y, z |-> HeightScale \div 2]
      mid == [i \in 1..(numPoints - 1) |->
               [x |-> contactPoint.x + ((target.x - contactPoint.x) * i) \div numPoints,
                y |-> contactPoint.y + ((target.y - contactPoint.y) * i) \div numPoints,
                z |-> 3 * (HeightScale \div 10)
                      + heightProxy * 3 * 4 * i * (numPoints - i)]]
  IN  <<start>> \o mid

generateShotPath(contactPoint, targetZone, shotType) ==
  LET target == zoneToPosition(targetZone)
      heightProxy == Lookup(SHOT_HEIGHT_PROXY, shotType, 50)
      numPoints == 5
      start == [x |-> contactPoint.x, y |-> contactPoint.y, z |-> HeightScale \div 2]
      mid == [i \in 1..(numPoints - 1) |->
               [x |-> contactPoint.x + ((target.x - contactPoint.x) * i) \div numPoints,
                y |-> contactPoint.y + ((target.y - contactPoint.y) * i) \div numPoints,
                z |-> 3 * (HeightScale \div 10)
                      + heightProxy * 3 * 4 * i * (numPoints - i)]]
      end == [x |-> target.x, y |-> target.y, z |-> 2 * (HeightScale \div 10)]
  IN  <<start>> \o mid \o <<end>>

\* mutant: the front-court list holds no name of a shot type
getViableShotTypes_FrontNone(phase, contactZone) ==
  LET phaseShotTypes == Lookup(VIABLE_SHOTS_BY_PHASE, phase, VIABLE_SHOTS_BY_PHASE.neutral)
      depthIdx == contactZone \div 3
      back(s) == s \in {"clear", "smash", "drop", "drive", "lift"}
      middle(s) == s \in {"drive", "drop", "net", "clear", "push"}
      front(s) == FALSE
  IN  IF depthIdx = 2 THEN SelectSeq(phaseShotTypes, back)
      ELSE IF depthIdx = 1 THEN SelectSeq(phaseShotTypes, middle)
      ELSE SelectSeq(phaseShotTypes, front)

getViableShotTypes(phase, contactZone) ==
  LET phaseShotTypes == Lookup(VIABLE_SHOTS_BY_PHASE, phase, VIABLE_SHOTS_BY_PHASE.neutral)
      depthIdx == contactZone \div 3
      back(s) == s \in {"clear", "smash", "drop", "drive", "lift"}
      middle(s) == s \in {"drive", "drop", "net", "clear", "push"}
      front(s) == s \in {"net", "push", "lift", "drive"}
  IN  IF depthIdx = 2 THEN SelectSeq(phaseShotTypes, back)
      ELSE IF depthIdx = 1 THEN SelectSeq(phaseShotTypes, middle)
      ELSE SelectSeq(phaseShotTypes, front)

buildCandidateRecommendation(shotType, targetZone, contactPoint, now, rnd) ==
  [id |-> generateRecId(shotType, targetZone, now, rnd),
   shotType |-> shotType,
   targetZone |-> targetZone,
   pathPolyline |-> generateShotPath(contactPoint, targetZone, shotType),
   score |-> 0,
   rationale |-> <<>>,
   confidence |-> 75]

\* 0..8 in ascending order without the open zones
RECURSIVE NonOpenZonesFrom(_, _)
NonOpenZonesFrom(z, open) ==
  IF z > 8 THEN <<>>
  ELSE (IF Includes(open, z) THEN <<>> ELSE <<z>>) \o NonOpenZonesFrom(z + 1, open)

\* mutant: the target zones without the cap
CappedTargetZones_Uncapped(rs) ==
  rs.openCourtZones \o NonOpenZonesFrom(0, rs.openCourtZones)

\* the target zones of generateRecommendations: open zones first, capped at 5
CappedTargetZones(rs) ==
  LET targetZones == rs.openCourtZones \o NonOpenZonesFrom(0, rs.openCourtZones)
  IN  SubSeq(targetZones, 1, Min(5, Len(targetZones)))

\* every viable shot type (outer loop) to every capped target zone (inner loop)
BuildCandidates(sh, f, rs, now, rnd) ==
  LET startPoint == IF Len(sh.trajectorySlice) > 0 THEN sh.trajectorySlice[1]
                    ELSE [x |-> CoordScale \div 2, y |-> CoordScale \div 4]
      contactPoint == [x |-> startPoint.x, y |-> startPoint.y]
      viableShotTypes == getViableShotTypes(rs.phase, f.contactZone)
      zones == CappedTargetZones(rs)
      n == Len(zones)
  IN  [k \in 1..(Len(viableShotTypes) * n) |->
        buildCandidateRecommendation(viableShotTypes[((k - 1) \div n) + 1],
                                     zones[((k - 1) % n) + 1],
                                     contactPoint, now, MathRandom(rnd, k))]

generateRecommendations(sh, f, rs, now, rnd) ==
  LET scored == scoreAndRankRecommendations(BuildCandidates(sh, f, rs, now, rnd), f, rs,
                                            DEFAULT_SCORING_WEIGHTS)
  IN  SubSeq(scored, 1, Min(3, Len(scored)))

----------------------------------------------------------------------------
(* rally-state-machine.ts, shot-segmentation.ts and feature-extraction.ts  *)
(* are not among the sources: they are modelled from the specification     *)
(* (sections 4.1 to 4.4) and from their unit tests                         *)

ENGINE_VERSION == "1.0.0"

\* thirds of the width and thirds of the far half court, inclusive-low;
\* positions on the near side fall into the front row
positionToZone(x, y) ==
  LET col == Clamp(0, x \div (CoordScale \div 3), 2)
      row == Clamp(0, (y - CoordScale \div 2) \div (CoordScale \div 6), 2)
  IN  row * 3 + col

\* mutant: the centre zone has its edge neighbours only
isAdjacentZone_NoCentre(a, b) ==
  \/ a = b
  \/ Abs((a \div 3) - (b \div 3)) + Abs((a % 3) - (b % 3)) = 1

\* the 9x9 adjacency table: same zone, shared grid edge, or the centre zone
isAdjacentZone(a, b) ==
  \/ a = b
  \/ a = 4
  \/ b = 4
  \/ Abs((a \div 3) - (b \div 3)) + Abs((a % 3) - (b % 3)) = 1

NoPosition == [none |-> TRUE]

RECURSIVE ZonesAwayFrom(_, _)
ZonesAwayFrom(z, oppZone) ==
  IF z > 8 THEN <<>>
  ELSE (IF isAdjacentZone(z, oppZone) THEN <<>> ELSE <<z>>) \o ZonesAwayFrom(z + 1, oppZone)

\* mutant: only the opponent's own zone is taken out
findOpenCourtZones_OwnZoneOnly(opp) ==
  IF opp = NoPosition THEN <<0, 2, 6, 8>>
  ELSE NonOpenZonesFrom(0, <<positionToZone(opp.x, opp.y)>>)

findOpenCourtZones(opp) ==
  IF opp = NoPosition THEN <<0, 2, 6, 8>>
  ELSE ZonesAwayFrom(0, positionToZone(opp.x, opp.y))

\* floor of the square root
Isqrt(q) == CHOOSE r \in 0..(2 * CoordScale) : r * r <= q /\ (r + 1) * (r + 1) > q

Distance(a, b) == Isqrt((a.x - b.x) * (a.x - b.x) + (a.y - b.y) * (a.y - b.y))

RECURSIVE PathLength(_, _)
PathLength(points, i) ==
  IF i >= Len(points) THEN 0
  ELSE Distance(points[i], points[i + 1]) + PathLength(points, i + 1)

\* distance covered over elapsed time, two court lengths a second being 1.0,
\* in hundredths; 0 for fewer than 2 points
estimateShuttleSpeed(points) ==
  IF Len(points) < 2 THEN 0
  ELSE LET elapsed == points[Len(points)].timestamp - points[1].timestamp
       IN  IF elapsed <= 0 THEN 0
           ELSE Clamp(0, (PathLength(points, 1) * 1000 * 100) \div (elapsed * 2 * CoordScale), 100)

\* largest deviation of an intermediate point from the chord between the first
\* and the last point, half a court length being 1.0, in hundredths; the
\* neutral 0.5 for fewer than 2 points
estimateShuttleHeight(points) ==
  IF Len(points) < 2 THEN 50
  ELSE LET a == points[1]
           b == points[Len(points)]
           chord == Distance(a, b)
           dev(i) == IF chord = 0 THEN Distance(points[i], a)
                     ELSE Abs((b.x - a.x) * (points[i].y - a.y)
                              - (b.y - a.y) * (points[i].x - a.x)) \div chord
           devs == {dev(i) : i \in 1..Len(points)}
           top == CHOOSE d \in devs : \A e \in devs : e <= d
       IN  Clamp(0, (top * 2 * 100) \div CoordScale, 100)

NetLine == CoordScale \div 2

CrossesNet(a, b) == (a.y - NetLine) * (b.y - NetLine) < 0

\* the type of a segment from its net crossing, landing depth, arc and speed
classifyShot(points) ==
  LET first == points[1]
      last == points[Len(points)]
      crossing == CrossesNet(first, last)
      deep == Abs(last.y - NetLine) > CoordScale \div 4
      speed == estimateShuttleSpeed(points)
      height == estimateShuttleHeight(points)
  IN  IF crossing
      THEN (IF speed > 70 THEN (IF deep THEN "smash" ELSE "drive")
            ELSE IF deep THEN (IF Abs(first.y - NetLine) > CoordScale \div 4
                               THEN "clear" ELSE "lift")
            ELSE IF height > 30 THEN "drop" ELSE "net")
      ELSE (IF speed > 70 THEN "drive" ELSE "push")

\* an excessive time between consecutive samples, in ms
MAX_TIME_GAP == 1500

\* point i (i >= 2) is a decision point when the step into it crosses the net
\* line or follows an excessive time gap, or when the travel reverses at it
IsDecisionPoint(traj, i) ==
  \/ CrossesNet(traj[i - 1], traj[i])
  \/ traj[i].timestamp - traj[i - 1].timestamp > MAX_TIME_GAP
  \/ /\ i < Len(traj)
     /\ (traj[i].x - traj[i - 1].x) * (traj[i + 1].x - traj[i].x)
        + (traj[i].y - traj[i - 1].y) * (traj[i + 1].y - traj[i].y) < 0

RECURSIVE BoundariesFrom(_, _)
BoundariesFrom(traj, i) ==
  IF i > Len(traj) THEN <<>>
  ELSE (IF IsDecisionPoint(traj, i) THEN <<i>> ELSE <<>>) \o BoundariesFrom(traj, i + 1)

\* the spans between consecutive decision points with the lead-in and the
\* trail-out, as ranges of indices into the trajectory
RawSegments(traj) ==
  LET b == <<1>> \o BoundariesFrom(traj, 2) \o <<Len(traj)>>
  IN  [k \in 1..(Len(b) - 1) |-> [lo |-> b[k], hi |-> b[k + 1]]]

\* fold every segment of fewer than 2 points into its neighbour: into the one
\* before it, or into the one after it when it is the first
RECURSIVE MergeFrom(_, _, _)
MergeFrom(segs, k, acc) ==
  IF k > Len(segs) THEN acc
  ELSE LET sg == segs[k]
       IN  IF sg.hi - sg.lo + 1 >= 2 THEN MergeFrom(segs, k + 1, Append(acc, sg))
           ELSE IF acc # <<>>
                THEN MergeFrom(segs, k + 1,
                               [acc EXCEPT ![Len(acc)] = [lo |-> acc[Len(acc)].lo, hi |-> sg.hi]])
                ELSE IF k < Len(segs)
                     THEN MergeFrom([segs EXCEPT ![k + 1] = [lo |-> sg.lo, hi |-> segs[k + 1].hi]],
                                    k + 1, acc)
                     ELSE acc

\* mutant: no merge pass
mergeShortSegments_None(segs) == segs

mergeShortSegments(segs) == MergeFrom(segs, 1, <<>>)

segmentShots(traj) ==
  IF Len(traj) < 2 THEN <<>>
  ELSE LET merged == mergeShortSegments(RawSegments(traj))
       IN  [k \in 1..Len(merged) |->
             LET slice == SubSeq(traj, merged[k].lo, merged[k].hi)
             IN  [shotIndex |-> k - 1,
                  type |-> classifyShot(slice),
                  startTime |-> slice[1].timestamp,
                  endTime |-> slice[Len(slice)].timestamp,
                  trajectorySlice |-> slice,
                  player |-> IF slice[1].y < NetLine THEN "near" ELSE "far"]]

\* mutant: the attack rule is tried before the defense rule
computeRallyState_AttackFirst(shots, idx, opp) ==
  IF Len(shots) = 0
  THEN [phase |-> "neutral", initiative |-> "unknown", pressure |-> 50,
        openCourtZones |-> <<0, 2, 6, 8>>, timestamp |-> 0]
  ELSE LET cur == shots[idx + 1]
           hasPrev == idx >= 1
           prevType == IF hasPrev THEN shots[idx].type ELSE "unknown"
           attacking(t) == t \in {"smash", "drop", "net"}
           phase == IF attacking(cur.type) \/ attacking(prevType) THEN "attack"
                    ELSE IF prevType = "smash" THEN "defense"
                    ELSE "neutral"
           duration == IF hasPrev THEN cur.startTime - shots[idx].startTime ELSE 0
           timePressure == IF duration > 0 THEN Clamp(0, 50000 \div duration, 100) ELSE 50
           shotTypePressure == IF prevType = "smash" THEN 100 ELSE 30
           start == cur.trajectorySlice[1]
           positionPressure == IF Abs(start.y - NetLine) > CoordScale \div 3 THEN 80 ELSE 30
       IN  [phase |-> phase,
            initiative |-> IF phase = "attack" THEN "us"
                           ELSE IF phase = "defense" THEN "them" ELSE "unknown",
            pressure |-> Clamp(0, (4 * timePressure + 3 * shotTypePressure
                                   + 3 * positionPressure) \div 10, 100),
            openCourtZones |-> findOpenCourtZones(opp),
            timestamp |-> cur.startTime]

\* mutant: the time pressure grows with the duration since the previous shot
computeRallyState_SlowIsPressure(shots, idx, opp) ==
  IF Len(shots) = 0
  THEN [phase |-> "neutral", initiative |-> "unknown", pressure |-> 50,
        openCourtZones |-> <<0, 2, 6, 8>>, timestamp |-> 0]
  ELSE LET cur == shots[idx + 1]
           hasPrev == idx >= 1
           prevType == IF hasPrev THEN shots[idx].type ELSE "unknown"
           attacking(t) == t \in {"smash", "drop", "net"}
           phase == IF prevType = "smash" THEN "defense"
                    ELSE IF attacking(cur.type) \/ attacking(prevType) THEN "attack"
                    ELSE "neutral"
           duration == IF hasPrev THEN cur.startTime - shots[idx].startTime ELSE 0
           timePressure == IF duration > 0 THEN Clamp(0, duration \div 20, 100) ELSE 50
           shotTypePressure == IF prevType = "smash" THEN 100 ELSE 30
           start == cur.trajectorySlice[1]
           positionPressure == IF Abs(start.y - NetLine) > CoordScale \div 3 THEN 80 ELSE 30
       IN  [phase |-> phase,
            initiative |-> IF phase = "attack" THEN "us"
                           ELSE IF phase = "defense" THEN "them" ELSE "unknown",
            pressure |-> Clamp(0, (4 * timePressure + 3 * shotTypePressure
                                   + 3 * positionPressure) \div 10, 100),
            openCourtZones |-> findOpenCourtZones(opp),
            timestamp |-> cur.startTime]

\* shots are 1-indexed here: shots[i + 1] is the code's shots[i]
computeRallyState(shots, idx, opp) ==
  IF Len(shots) = 0
  THEN [phase |-> "neutral", initiative |-> "unknown", pressure |-> 50,
        openCourtZones |-> <<0, 2, 6, 8>>, timestamp |-> 0]
  ELSE LET cur == shots[idx + 1]
           hasPrev == idx >= 1
           prevType == IF hasPrev THEN shots[idx].type ELSE "unknown"
           attacking(t) == t \in {"smash", "drop", "net"}
           phase == IF prevType = "smash" THEN "defense"
                    ELSE IF attacking(cur.type) \/ attacking(prevType) THEN "attack"
                    ELSE "neutral"
           duration == IF hasPrev THEN cur.startTime - shots[idx].startTime ELSE 0
           timePressure == IF duration > 0 THEN Clamp(0, 50000 \div duration, 100) ELSE 50
           shotTypePressure == IF prevType = "smash" THEN 100 ELSE 30
           start == cur.trajectorySlice[1]
           positionPressure == IF Abs(start.y - NetLine) > CoordScale \div 3 THEN 80 ELSE 30
       IN  [phase |-> phase,
            initiative |-> IF phase = "attack" THEN "us"
                           ELSE IF phase = "defense" THEN "them" ELSE "unknown",
            pressure |-> Clamp(0, (4 * timePressure + 3 * shotTypePressure
                                   + 3 * positionPressure) \div 10, 100),
            openCourtZones |-> findOpenCourtZones(opp),
            timestamp |-> cur.startTime]

\* without opponent samples every state is computed without a position
computeAllRallyStates(shots) ==
  [k \in 1..Len(shots) |-> computeRallyState(shots, k - 1, NoPosition)]

PhaseCount(states, ph) == Cardinality({k \in 1..Len(states) : states[k].phase = ph})

\* mutant: the first phase of the highest count, ties included
getDominantPhase_FirstOfTies(states) ==
  IF Len(states) = 0 THEN "neutral"
  ELSE LET top(ph) == \A other \in Phases : PhaseCount(states, ph) >= PhaseCount(states, other)
       IN  IF top("attack") THEN "attack" ELSE IF top("defense") THEN "defense" ELSE "neutral"

getDominantPhase(states) ==
  IF \E ph \in Phases : \A other \in Phases \ {ph} :
       PhaseCount(states, ph) > PhaseCount(states, other)
  THEN CHOOSE ph \in Phases : \A other \in Phases \ {ph} :
         PhaseCount(states, ph) > PhaseCount(states, other)
  ELSE "neutral"

RECURSIVE SumPressure(_, _)
SumPressure(states, k) ==
  IF k > Len(states) THEN 0 ELSE states[k].pressure + SumPressure(states, k + 1)

\* the mean pressure in 1/10000, rounded down; 0.5 for no states
getAveragePressure(states) ==
  IF Len(states) = 0 THEN 50 * 100
  ELSE (SumPressure(states, 1) * 100) \div Len(states)

RECURSIVE KeyMomentsFrom(_, _, _)
KeyMomentsFrom(states, k, threshold) ==
  IF k > Len(states) THEN <<>>
  ELSE (IF states[k].pressure > threshold THEN <<k - 1>> ELSE <<>>)
       \o KeyMomentsFrom(states, k + 1, threshold)

findKeyMoments(states) == KeyMomentsFrom(states, 1, 70)

\* without opponent samples the opponent's movement and direction change are 0;
\* the recovery window is the shot's own duration, 2 s and more being 1.0
extractShotFeatures(sh, state) ==
  LET slice == sh.trajectorySlice
  IN  [contactZone |-> positionToZone(slice[1].x, slice[1].y),
       landingZone |-> positionToZone(slice[Len(slice)].x, slice[Len(slice)].y),
       shuttleSpeedProxy |-> estimateShuttleSpeed(slice),
       shuttleHeightProxy |-> estimateShuttleHeight(slice),
       opponentMovementDistance |-> 0,
       opponentDirectionChange |-> 0,
       recoveryQuality |-> Clamp(0, (sh.endTime - sh.startTime) \div 20, 100),
       rallyState |-> state]

extractAllShotFeatures(shots, rallyStates) ==
  [k \in 1..Len(shots) |-> extractShotFeatures(shots[k], rallyStates[k])]

----------------------------------------------------------------------------
(* recommendation-generator.ts: the rally entry points *)

\* mutant: the analyses in the reverse order of the shots
generatePerShotAnalysis_Reversed(shots, rallyStates, feats, now, rnd) ==
  [k \in 1..Len(shots) |->
     LET j == Len(shots) + 1 - k
     IN  [shot |-> shots[j],
          features |-> feats[j],
          recommendations |-> generateRecommendations(shots[j], feats[j], rallyStates[j],
                                                      now, rnd + j)]]

generatePerShotAnalysis(shots, rallyStates, feats, now, rnd) ==
  [k \in 1..Len(shots) |->
     [shot |-> shots[k],
      features |-> feats[k],
      recommendations |-> generateRecommendations(shots[k], feats[k], rallyStates[k],
                                                  now, rnd + k)]]

\* mutant: one-based key moments, and the count of the shots before the last
buildRallySummary_OneBased(perShot, rallyStates) ==
  [totalShots |-> Len(perShot) - 1,
   dominantPhase |-> getDominantPhase(rallyStates),
   averagePressure |-> getAveragePressure(rallyStates),
   keyMoments |-> [k \in 1..Len(findKeyMoments(rallyStates)) |->
                     findKeyMoments(rallyStates)[k] + 1],
   winner |-> "unknown"]

buildRallySummary(perShot, rallyStates) ==
  [totalShots |-> Len(perShot),
   dominantPhase |-> getDominantPhase(rallyStates),
   averagePressure |-> getAveragePressure(rallyStates),
   keyMoments |-> findKeyMoments(rallyStates),
   winner |-> "unknown"]

\* mutant: the early return reports no pressure at all
analyzeRally_EmptyPressureZero(sessionId, traj, env) ==
  LET shots == segmentShots(traj)
      metadata == [processedAt |-> env.now + env.elapsed,
                   engineVersion |-> ENGINE_VERSION,
                   processingTimeMs |-> env.elapsed]
  IN  IF Len(shots) = 0
      THEN [sessionId |-> sessionId,
            rallyId |-> <<"rally", env.now>>,
            shots |-> <<>>,
            summary |-> [totalShots |-> 0, dominantPhase |-> "neutral",
                         averagePressure |-> 0, keyMoments |-> <<>>],
            metadata |-> metadata]
      ELSE LET rallyStates == computeAllRallyStates(shots)
               feats == extractAllShotFeatures(shots, rallyStates)
               perShotAnalysis == generatePerShotAnalysis(shots, rallyStates, feats,
                                                          env.now, env.rnd)
           IN  [sessionId |-> sessionId,
                rallyId |-> <<"rally", env.now + env.elapsed, env.rnd>>,
                shots |-> perShotAnalysis,
                summary |-> buildRallySummary(perShotAnalysis, rallyStates),
                metadata |-> metadata]

\* env: what Date.now() returns at the start (now), how long the call takes
\* (elapsed) and what Math.random() returns (rnd)
analyzeRally(sessionId, traj, env) ==
  LET shots == segmentShots(traj)
      metadata == [processedAt |-> env.now + env.elapsed,
                   engineVersion |-> ENGINE_VERSION,
                   processingTimeMs |-> env.elapsed]
  IN  IF Len(shots) = 0
      THEN [sessionId |-> sessionId,
            rallyId |-> <<"rally", env.now>>,
            shots |-> <<>>,
            summary |-> [totalShots |-> 0, dominantPhase |-> "neutral",
                         averagePressure |-> 50 * 100, keyMoments |-> <<>>],
            metadata |-> metadata]
      ELSE LET rallyStates == computeAllRallyStates(shots)
               feats == extractAllShotFeatures(shots, rallyStates)
               perShotAnalysis == generatePerShotAnalysis(shots, rallyStates, feats,
                                                          env.now, env.rnd)
           IN  [sessionId |-> sessionId,
                rallyId |-> <<"rally", env.now + env.elapsed, env.rnd>>,
                shots |-> perShotAnalysis,
                summary |-> buildRallySummary(perShotAnalysis, rallyStates),
                metadata |-> metadata]

\* mutant: the state of the shot is computed without the shots before it
generateRecommendationsForShot_Alone(traj, idx, opp, env) ==
  LET shots == segmentShots(traj)
  IN  IF idx < 0 \/ idx >= Len(shots) THEN <<>>
      ELSE LET state == computeRallyState(<<shots[idx + 1]>>, 0, opp)
               feats == extractShotFeatures(shots[idx + 1], state)
           IN  generateRecommendations(shots[idx + 1], feats, state, env.now, env.rnd)

\* mutant: always the first shot of the trajectory
generateRecommendationsForShot_FirstShot(traj, idx, opp, env) ==
  LET shots == segmentShots(traj)
  IN  IF idx < 0 \/ idx >= Len(shots) THEN <<>>
      ELSE LET state == computeRallyState(shots, 0, opp)
               feats == extractShotFeatures(shots[1], state)
           IN  generateRecommendations(shots[1], feats, state, env.now, env.rnd)

generateRecommendationsForShot(traj, idx, opp, env) ==
  LET shots == segmentShots(traj)
  IN  IF idx < 0 \/ idx >= Len(shots) THEN <<>>
      ELSE LET state == computeRallyState(shots, idx, opp)
               feats == extractShotFeatures(shots[idx + 1], state)
           IN  generateRecommendations(shots[idx + 1], feats, state, env.now, env.rnd)

----------------------------------------------------------------------------
(* Inputs *)

MaxPressureIdx == 10

\* pressures 0, 0.1, ... 1 (the thresholds 0.3 and 0.7 among them)
PressureLevels == {(i * 100) \div MaxPressureIdx : i \in 0..MaxPressureIdx}

\* every subset of 0..8 as an ascending list
RECURSIVE AscendingFrom(_, _)
AscendingFrom(z, set) ==
  IF z > 8 THEN <<>>
  ELSE (IF z \in set THEN <<z>> ELSE <<>>) \o AscendingFrom(z + 1, set)

OpenCourtInputs == {AscendingFrom(0, S) : S \in SUBSET Zones}

Point(x, y, t) == [x |-> x, y |-> y, timestamp |-> t]

\* the shot of the generator's tests: a clear from (0.5, 0.3) to (0.5, 0.7)
MockShot(slice) ==
  [shotIndex |-> 0, type |-> "clear", startTime |-> 0, endTime |-> 1000,
   trajectorySlice |-> slice, player |-> "near"]

MockSlice == <<Point(150, 90, 0), Point(150, 210, 1000)>>

MockRallyState ==
  [phase |-> "neutral", initiative |-> "unknown", pressure |-> 50,
   openCourtZones |-> <<0, 2, 6, 8>>, timestamp |-> 0]

MockFeatures ==
  [contactZone |-> 4, landingZone |-> 7, shuttleSpeedProxy |-> 50, shuttleHeightProxy |-> 60,
   opponentMovementDistance |-> 40, opponentDirectionChange |-> 25, recoveryQuality |-> 30]

\* shots whose contact point differs from the mock's
OtherSlices ==
  {<<Point(50, 30, 0), Point(250, 270, 800)>>,
   <<Point(250, 200, 0), Point(100, 60, 400), Point(90, 40, 600)>>}

Unscored(shotType, targetZone, contactPoint) ==
  buildCandidateRecommendation(shotType, targetZone, contactPoint, 0, 0)

\* a hand-built candidate list: every repertoire type, the target zones
\* stepping round the court from zone z
MixedCandidates(z) ==
  LET types == <<"drive", "smash", "clear", "net", "lift", "drop", "push">>
  IN  [k \in 1..Len(types) |-> Unscored(types[k], (z + 2 * k) % 9, MockSlice[1])]

\* the calls of generateRecommendations: every phase, contact zone and set of
\* open zones on the mock shot, every phase, pressure, contact zone and
\* landing zone on the other shots with the corners open, and every phase,
\* contact zone and landing zone on the mock shot with a single zone open, at
\* a pressure below and one above the attack threshold
InitGen ==
  /\ op = "init"
  /\ \/ /\ shot = MockShot(MockSlice)
        /\ \E cz \in Zones :
              features = [MockFeatures EXCEPT !.contactZone = cz]
        /\ \E ph \in Phases, open \in OpenCourtInputs :
              rallyState = [MockRallyState EXCEPT !.phase = ph, !.openCourtZones = open]
        /\ candidates = <<>>
     \/ /\ \E sl \in OtherSlices : shot = MockShot(sl)
        /\ \E cz \in Zones, lz \in Zones :
              /\ features = [MockFeatures EXCEPT !.contactZone = cz, !.landingZone = lz]
              /\ candidates = MixedCandidates(lz)
        /\ \E ph \in Phases, p \in PressureLevels :
              rallyState = [MockRallyState EXCEPT !.phase = ph, !.pressure = p]
     \/ /\ shot = MockShot(MockSlice)
        /\ \E cz \in Zones, lz \in Zones :
              features = [MockFeatures EXCEPT !.contactZone = cz, !.landingZone = lz]
        /\ \E ph \in Phases, z \in Zones, p \in {20, 50} :
              rallyState = [MockRallyState EXCEPT !.phase = ph, !.pressure = p,
                                                  !.openCourtZones = <<z>>]
        /\ candidates = <<>>
  /\ weights = DEFAULT_SCORING_WEIGHTS
  /\ trajectory = <<>>
  /\ opponentPosition = NoPosition
  /\ shotIndex = 0
  /\ clock = 0
  /\ random = 0
  /\ result = <<>>
  /\ path = <<>>
  /\ runs = <<>>
  /\ args = <<>>
  /\ ret = <<>>
  /\ engine = createPlaybackEngine
  /\ previousUpdate = NoUpdate

\* the objects passed to generateRecommendations, as the call leaves them: the
\* slice is only read, and the target zones are a spread copy of openCourtZones
generateRecommendations_Arguments(sh, f, rs) ==
  [shot |-> sh, features |-> f, rallyState |-> rs]

\* mutant: the scores are written into the candidates and the array is sorted
\* in place
scoreAndRankRecommendations_Arguments_InPlace(recs, f, rs, w) ==
  scoreAndRankRecommendations(recs, f, rs, w)

\* the array passed to scoreAndRankRecommendations, as the call leaves it: map
\* builds the array that is sorted, and scoreRecommendation spreads each
\* candidate into a new record
scoreAndRankRecommendations_Arguments(recs, f, rs, w) == recs

GenerateRecommendations ==
  /\ op = "init"
  /\ result' = generateRecommendations(shot, features, rallyState, clock, random)
  /\ LET after == generateRecommendations_Arguments(shot, features, rallyState)
     IN  /\ shot' = after.shot
         /\ features' = after.features
         /\ rallyState' = after.rallyState
  /\ op' = "generateRecommendations"
  /\ UNCHANGED <<engine, previousUpdate, args, ret, weights, candidates, trajectory,
                 opponentPosition, shotIndex, clock, random, path, runs>>

ScoreAndRankRecommendations ==
  /\ op = "init"
  /\ result' = scoreAndRankRecommendations(candidates, features, rallyState, weights)
  /\ candidates' =
       scoreAndRankRecommendations_Arguments(candidates, features, rallyState, weights)
  /\ op' = "scoreAndRankRecommendations"
  /\ UNCHANGED <<engine, previousUpdate, args, ret, shot, features, rallyState, weights, trajectory,
                 opponentPosition, shotIndex, clock, random, path, runs>>

NextGen == GenerateRecommendations \/ ScoreAndRankRecommendations

SpecGen == InitGen /\ [][NextGen]_vars

----------------------------------------------------------------------------
(* Calls of scoreRecommendation *)

WeightInputs ==
  {DEFAULT_SCORING_WEIGHTS,
   [movementPressure |-> 0, openCourt |-> 0, riskUnderPressure |-> 0, angleExposure |-> 0],
   [movementPressure |-> 1000, openCourt |-> 1000, riskUnderPressure |-> 0, angleExposure |-> 0],
   [movementPressure |-> 0, openCourt |-> 0, riskUnderPressure |-> 1000, angleExposure |-> 1000],
   [movementPressure |-> -20, openCourt |-> -25, riskUnderPressure |-> -15, angleExposure |-> -10]}

FeatureInputs ==
  {MockFeatures,
   [MockFeatures EXCEPT !.landingZone = 0, !.opponentDirectionChange = 100,
                        !.recoveryQuality = 20],
   [MockFeatures EXCEPT !.landingZone = 4, !.opponentDirectionChange = 0,
                        !.recoveryQuality = 50]}

ScoreOpenInputs == {<<>>, <<0, 2, 6, 8>>, <<3, 4, 5>>}

InitScore ==
  /\ op = "init"
  /\ shot = MockShot(MockSlice)
  /\ features \in FeatureInputs
  /\ \E ph \in Phases, open \in ScoreOpenInputs, p \in PressureLevels :
        rallyState = [MockRallyState EXCEPT !.phase = ph, !.pressure = p,
                                            !.openCourtZones = open]
  /\ weights \in WeightInputs
  /\ \E st \in ShotTypes, z \in Zones :
        candidates = <<Unscored(st, z, MockSlice[1])>>
  /\ trajectory = <<>>
  /\ opponentPosition = NoPosition
  /\ shotIndex = 0
  /\ clock = 0
  /\ random = 0
  /\ result = <<>>
  /\ path = <<>>
  /\ runs = <<>>
  /\ args = <<>>
  /\ ret = <<>>
  /\ engine = createPlaybackEngine
  /\ previousUpdate = NoUpdate

ScoreRecommendation ==
  /\ op = "init"
  /\ Len(candidates) > 0
  /\ result' = <<scoreRecommendation(candidates[1], features, rallyState, weights)>>
  /\ op' = "scoreRecommendation"
  /\ UNCHANGED <<engine, previousUpdate, args, ret, shot, features, rallyState, weights, candidates, trajectory,
                 opponentPosition, shotIndex, clock, random, path, runs>>

NextScore == ScoreRecommendation

SpecScore == InitScore /\ [][NextScore]_vars

----------------------------------------------------------------------------
(* Calls of generateShotPath *)

\* contact points on a grid of sixths of the court
ContactInputs == {[x |-> 50 * i, y |-> 50 * j] : i \in 0..6, j \in 0..6}

InitPath ==
  /\ op = "init"
  /\ \E c \in ContactInputs :
        shot = MockShot(<<Point(c.x, c.y, 0), Point(150, 210, 1000)>>)
  /\ features = MockFeatures
  /\ rallyState = MockRallyState
  /\ weights = DEFAULT_SCORING_WEIGHTS
  /\ \E st \in ShotTypes, z \in Zones :
        candidates = <<[shotType |-> st, targetZone |-> z]>>
  /\ trajectory = <<>>
  /\ opponentPosition = NoPosition
  /\ shotIndex = 0
  /\ clock = 0
  /\ random = 0
  /\ result = <<>>
  /\ path = <<>>
  /\ runs = <<>>
  /\ args = <<>>
  /\ ret = <<>>
  /\ engine = createPlaybackEngine
  /\ previousUpdate = NoUpdate

\* generateShotPath(contactPoint, targetZone, shotType) on the first point of
\* the shot and the zone and type of the candidate
GenerateShotPath ==
  /\ op = "init"
  /\ path' = generateShotPath([x |-> shot.trajectorySlice[1].x,
                               y |-> shot.trajectorySlice[1].y],
                              candidates[1].targetZone, candidates[1].shotType)
  /\ op' = "generateShotPath"
  /\ UNCHANGED <<engine, previousUpdate, args, ret, shot, features, rallyState, weights, candidates, trajectory,
                 opponentPosition, shotIndex, clock, random, result, runs>>

NextPath == GenerateShotPath

SpecPath == InitPath /\ [][NextPath]_vars

----------------------------------------------------------------------------
(* The rally entry points on bounded trajectories *)

\* the longest trajectory handed to the entry points
MaxTrajLen == 3

\* the most analyzeRally calls of one behaviour
MaxRuns == 2

\* where the shuttle is sampled: near back court, near fore court, far back court
CourtPoints == <<[x |-> 150, y |-> 60], [x |-> 50, y |-> 120], [x |-> 250, y |-> 240]>>

\* the time between consecutive samples, in ms
GapInputs == {300, 2000}

RECURSIVE TimeAt(_, _)
TimeAt(steps, i) == IF i <= 1 THEN 0 ELSE steps[i].gap + TimeAt(steps, i - 1)

TrajectoryOf(steps) ==
  [i \in 1..Len(steps) |->
     Point(CourtPoints[steps[i].at].x, CourtPoints[steps[i].at].y, TimeAt(steps, i))]

StepInputs == [at : 1..Len(CourtPoints), gap : GapInputs]

TrajectoryInputs ==
  UNION {{TrajectoryOf(steps) : steps \in {st \in [1..n -> StepInputs] :
                                             n >= 1 => st[1].gap = 300}} : n \in 0..MaxTrajLen}

\* two readings of the clock and of the random source
EnvInputs == {[now |-> 1000, elapsed |-> 0, rnd |-> 3], [now |-> 1007, elapsed |-> 2, rnd |-> 8]}

OpponentInputs == {NoPosition, [x |-> 50, y |-> 175], [x |-> 150, y |-> 225]}

InitRally(indices, opponents) ==
  /\ op = "init"
  /\ shot = MockShot(MockSlice)
  /\ features = MockFeatures
  /\ rallyState = MockRallyState
  /\ weights = DEFAULT_SCORING_WEIGHTS
  /\ candidates = <<>>
  /\ trajectory \in TrajectoryInputs
  /\ opponentPosition \in opponents
  /\ shotIndex \in indices
  /\ clock = 0
  /\ random = 0
  /\ result = <<>>
  /\ path = <<>>
  /\ runs = <<>>
  /\ args = <<>>
  /\ ret = <<>>
  /\ engine = createPlaybackEngine
  /\ previousUpdate = NoUpdate

InitAnalyze == InitRally({0}, {NoPosition})

\* analyzeRally(sessionId, trajectory) called once more on the same arguments
AnalyzeRally ==
  /\ op \in {"init", "analyzeRally"}
  /\ Len(runs) < MaxRuns
  /\ \E env \in EnvInputs :
        /\ clock' = env.now
        /\ random' = env.rnd
        /\ runs' = Append(runs, analyzeRally("session", trajectory, env))
  /\ op' = "analyzeRally"
  /\ UNCHANGED <<engine, previousUpdate, args, ret, shot, features, rallyState, weights, candidates, trajectory,
                 opponentPosition, shotIndex, result, path>>

NextAnalyze == AnalyzeRally

SpecAnalyze == InitAnalyze /\ [][NextAnalyze]_vars

InitShot == InitRally(-1..MaxTrajLen, OpponentInputs)

\* generateRecommendationsForShot(trajectory, shotIndex, opponentPosition)
GenerateRecommendationsForShot ==
  /\ op = "init"
  /\ \E env \in EnvInputs :
        /\ clock' = env.now
        /\ random' = env.rnd
        /\ result' = generateRecommendationsForShot(trajectory, shotIndex,
                                                    opponentPosition, env)
  /\ op' = "generateRecommendationsForShot"
  /\ UNCHANGED <<engine, previousUpdate, args, ret, shot, features, rallyState, weights, candidates, trajectory,
                 opponentPosition, shotIndex, path, runs>>

NextShot == GenerateRecommendationsForShot

SpecShot == InitShot /\ [][NextShot]_vars

----------------------------------------------------------------------------
(* Calls of the zone mapper *)

\* no position, the centre of every zone, and a position on the near side
PositionInputs ==
  {NoPosition, [x |-> 150, y |-> 60]} \cup {ZONE_CENTERS[z] : z \in Zones}

InitLeaf(inputs) ==
  /\ op = "init"
  /\ shot = MockShot(MockSlice)
  /\ features = MockFeatures
  /\ rallyState = MockRallyState
  /\ weights = DEFAULT_SCORING_WEIGHTS
  /\ candidates = <<>>
  /\ trajectory = <<>>
  /\ opponentPosition = NoPosition
  /\ shotIndex = 0
  /\ clock = 0
  /\ random = 0
  /\ result = <<>>
  /\ path = <<>>
  /\ runs = <<>>
  /\ args \in inputs
  /\ ret = <<>>
  /\ engine = createPlaybackEngine
  /\ previousUpdate = NoUpdate

\* what a call of a leaf function leaves alone
LeafUnchanged ==
  UNCHANGED <<engine, previousUpdate, shot, features, rallyState, weights, candidates, trajectory,
              opponentPosition, shotIndex, clock, random, result, path, runs, args>>

InitZone == InitLeaf([a : Zones, b : Zones, position : PositionInputs])

\* isAdjacentZone(a, b)
IsAdjacentZone ==
  /\ op = "init"
  /\ ret' = isAdjacentZone(args.a, args.b)
  /\ op' = "isAdjacentZone"
  /\ LeafUnchanged

\* findOpenCourtZones(opponentPosition?)
FindOpenCourtZones ==
  /\ op = "init"
  /\ ret' = findOpenCourtZones(args.position)
  /\ op' = "findOpenCourtZones"
  /\ LeafUnchanged

NextZone == IsAdjacentZone \/ FindOpenCourtZones

SpecZone == InitZone /\ [][NextZone]_vars

----------------------------------------------------------------------------
(* Calls of the shot segmenter *)

\* the most raw segments handed to the merge pass
MaxSegments == 4

RECURSIVE PointsBefore(_, _)
PointsBefore(counts, k) == IF k <= 1 THEN 0 ELSE counts[k - 1] + PointsBefore(counts, k - 1)

\* consecutive segments of the given numbers of points
SegmentsOf(counts) ==
  [k \in 1..Len(counts) |->
     [lo |-> PointsBefore(counts, k) + 1, hi |-> PointsBefore(counts, k) + counts[k]]]

\* raw segments of 1 to 3 points each, wherever the decision points fall
SegmentInputs ==
  UNION {{SegmentsOf(counts) : counts \in [1..n -> 1..3]} : n \in 0..MaxSegments}

InitSegment ==
  /\ op = "init"
  /\ shot = MockShot(MockSlice)
  /\ features = MockFeatures
  /\ rallyState = MockRallyState
  /\ weights = DEFAULT_SCORING_WEIGHTS
  /\ candidates = <<>>
  /\ \/ trajectory \in TrajectoryInputs /\ args = <<>>
     \/ trajectory = <<>> /\ args \in SegmentInputs
  /\ opponentPosition = NoPosition
  /\ shotIndex = 0
  /\ clock = 0
  /\ random = 0
  /\ result = <<>>
  /\ path = <<>>
  /\ runs = <<>>
  /\ ret = <<>>
  /\ engine = createPlaybackEngine
  /\ previousUpdate = NoUpdate

\* segmentShots(trajectory)
SegmentShots ==
  /\ op = "init"
  /\ ret' = segmentShots(trajectory)
  /\ op' = "segmentShots"
  /\ LeafUnchanged

\* mergeShortSegments(segments)
MergeShortSegments ==
  /\ op = "init"
  /\ ret' = mergeShortSegments(args)
  /\ op' = "mergeShortSegments"
  /\ LeafUnchanged

NextSegment == SegmentShots \/ MergeShortSegments

SpecSegment == InitSegment /\ [][NextSegment]_vars

----------------------------------------------------------------------------
(* Calls of the rally state machine *)

\* the most shots of a sequence handed to computeRallyState
MaxShots == 3

\* the most states handed to getDominantPhase
MaxStates == 4

\* createMockShot(index, type, startY) of the state machine's tests, the shots
\* following each other every gap ms
MockShotAt(index, type, startY, gap) ==
  [shotIndex |-> index, type |-> type,
   startTime |-> index * gap, endTime |-> (index + 1) * gap,
   trajectorySlice |-> <<Point(150, startY, index * gap),
                         Point(150, startY + 90, (index + 1) * gap)>>,
   player |-> IF startY < NetLine THEN "near" ELSE "far"]

MockShots(types, startY, gap) ==
  [k \in 1..Len(types) |-> MockShotAt(k - 1, types[k], startY, gap)]

ShotTypeInputs == {"smash", "drop", "clear", "lift"}

\* the time from one shot to the next, in ms
DurationInputs == {200, 300, 1000, 2000}

\* where the shots start: y = 0.1 (deep) and y = 0.3
StartInputs == {30, 90}

MockState(ph) ==
  [phase |-> ph, initiative |-> "unknown", pressure |-> 50,
   openCourtZones |-> <<>>, timestamp |-> 0]

ShotSequenceInputs ==
  UNION {[types : [1..n -> ShotTypeInputs], idx : 0..Max(0, n - 1), gap : DurationInputs,
          startY : StartInputs, position : {NoPosition, ZONE_CENTERS[8]},
          states : {<<>>}] : n \in 0..MaxShots}

StateListInputs ==
  UNION {[types : {<<>>}, idx : {0}, gap : {1000}, startY : {90}, position : {NoPosition},
          states : {[k \in 1..n |-> MockState(phs[k])] : phs \in [1..n -> Phases]}]
         : n \in 0..MaxStates}

InitState == InitLeaf(ShotSequenceInputs \cup StateListInputs)

\* computeRallyState(shots, shotIndex, opponentPosition?)
ComputeRallyState ==
  /\ op = "init"
  /\ ret' = computeRallyState(MockShots(args.types, args.startY, args.gap), args.idx,
                              args.position)
  /\ op' = "computeRallyState"
  /\ LeafUnchanged

\* getDominantPhase(states)
GetDominantPhase ==
  /\ op = "init"
  /\ ret' = getDominantPhase(args.states)
  /\ op' = "getDominantPhase"
  /\ LeafUnchanged

NextState == ComputeRallyState \/ GetDominantPhase

SpecState == InitState /\ [][NextState]_vars

----------------------------------------------------------------------------
(* Calls of the scoring factors *)

InitFactor == InitLeaf([targetZone : Zones, openCourtZones : OpenCourtInputs])

\* calculateOpenCourtScore(targetZone, rallyState)
CalculateOpenCourtScore ==
  /\ op = "init"
  /\ ret' = calculateOpenCourtScore(args.targetZone,
                [MockRallyState EXCEPT !.openCourtZones = args.openCourtZones])
  /\ op' = "calculateOpenCourtScore"
  /\ LeafUnchanged

NextFactor == CalculateOpenCourtScore

SpecFactor == InitFactor /\ [][NextFactor]_vars

----------------------------------------------------------------------------
(* Calls on a PlaybackEngine *)

MaxTicks == 4

\* the time between two animation frames, in ms
TickInputs == {0, 2500, 5000}

\* the deltas handed to step: backwards, forwards, and beyond the end
DeltaInputs == {0 - PlaybackScale, 0 - (PlaybackScale \div 4), PlaybackScale \div 8,
                PlaybackScale \div 2, 2 * PlaybackScale}

InitPlayback ==
  /\ op = "init"
  /\ shot = MockShot(MockSlice)
  /\ features = MockFeatures
  /\ rallyState = MockRallyState
  /\ weights = DEFAULT_SCORING_WEIGHTS
  /\ candidates = <<>>
  /\ trajectory = <<>>
  /\ opponentPosition = NoPosition
  /\ shotIndex = 0
  /\ clock = 0
  /\ random = 0
  /\ result = <<>>
  /\ path = <<>>
  /\ runs = <<>>
  /\ args = [engine |-> createPlaybackEngine]
  /\ ret = <<>>
  /\ engine = createPlaybackEngine
  /\ previousUpdate = NoUpdate

\* what a call on the playback engine leaves alone
PlaybackUnchanged ==
  UNCHANGED <<shot, features, rallyState, weights, candidates, trajectory,
              opponentPosition, shotIndex, random, result, path, runs>>

\* a method of PlaybackEngine that returns nothing and takes no timestamp
Method(name, after) ==
  /\ engine' = after
  /\ args' = [engine |-> engine]
  /\ ret' = <<>>
  /\ op' = name
  /\ UNCHANGED <<clock, previousUpdate>>
  /\ PlaybackUnchanged

Play == Method("play", play(engine))

Pause == Method("pause", pause(engine))

Toggle ==
  /\ engine' = toggle(engine)
  /\ args' = [engine |-> engine]
  /\ ret' = <<engine'.playing>>
  /\ op' = "toggle"
  /\ UNCHANGED <<clock, previousUpdate>>
  /\ PlaybackUnchanged

Reset ==
  /\ engine' = reset(engine)
  /\ args' = [engine |-> engine]
  /\ ret' = <<>>
  /\ op' = "reset"
  /\ previousUpdate' = NoUpdate
  /\ UNCHANGED clock
  /\ PlaybackUnchanged

SetSpeed == \E speed \in TimeScales : Method("setSpeed", setSpeed(engine, speed))

SetActiveView == \E view \in ActiveViews : Method("setActiveView", setActiveView(engine, view))

Step == \E delta \in DeltaInputs : Method("step", step(engine, delta))

\* updatePlaybackTime(engine, timestamp) from the animation frame callback: the
\* timestamps never decrease
UpdatePlaybackTime ==
  /\ \E tick \in TickInputs :
        /\ clock + tick <= MaxTicks * 2500
        /\ clock' = clock + tick
  /\ engine' = updatePlaybackTime(engine, clock')
  /\ args' = [engine |-> engine, timestamp |-> clock', previousUpdate |-> previousUpdate]
  /\ ret' = <<engine'.t>>
  /\ previousUpdate' = [timestamp |-> clock', paused |-> ~engine.playing]
  /\ op' = "updatePlaybackTime"
  /\ PlaybackUnchanged

NextPlayback ==
  \/ Play \/ Pause \/ Toggle \/ Reset \/ SetSpeed \/ SetActiveView \/ Step
  \/ UpdatePlaybackTime

SpecPlayback == InitPlayback /\ [][NextPlayback]_vars

----------------------------------------------------------------------------
(* The engine as a whole: any one of its entry points on its inputs *)

Init ==
  \/ InitGen \/ InitScore \/ InitPath \/ InitAnalyze \/ InitShot
  \/ InitZone \/ InitSegment \/ InitState \/ InitFactor \/ InitPlayback

Next ==
  \/ GenerateRecommendations
  \/ ScoreAndRankRecommendations
  \/ ScoreRecommendation
  \/ GenerateShotPath
  \/ AnalyzeRally
  \/ GenerateRecommendationsForShot
  \/ IsAdjacentZone
  \/ FindOpenCourtZones
  \/ SegmentShots
  \/ MergeShortSegments
  \/ ComputeRallyState
  \/ GetDominantPhase
  \/ CalculateOpenCourtScore
  \/ Play \/ Pause \/ Toggle \/ Reset \/ SetSpeed \/ SetActiveView \/ Step
  \/ UpdatePlaybackTime

Spec == Init /\ [][Next]_vars

----------------------------------------------------------------------------
(* Properties of the recommendation generator *)

\* the candidates of the call in the state, unscored and scored in generation order
CallCandidates == BuildCandidates(shot, features, rallyState, clock, random)

CallScored ==
  [i \in 1..Len(CallCandidates) |->
     scoreRecommendation(CallCandidates[i], features, rallyState, DEFAULT_SCORING_WEIGHTS)]

SortedByScoreDesc(recs) == \A i \in 2..Len(recs) : recs[i - 1].score >= recs[i].score

\* C1: generateRecommendations returns exactly 3 recommendations for every
\* phase, contact zone and set of open zones: the viable-shot-type filter
\* leaves at least 3 candidates to rank
C1_ExactlyThree ==
  op = "generateRecommendations" =>
    /\ Len(result) = 3
    /\ Len(getViableShotTypes(rallyState.phase, features.contactZone)) >= 1
    /\ Len(CallCandidates) >= 3

C1_Witness ==
  /\ op = "generateRecommendations"
  /\ rallyState.openCourtZones = <<>>
  /\ rallyState.phase = "defense"
  /\ features.contactZone = 0
  /\ Len(result) = 3

\* the number of scores in the list that are higher than v
HigherThan(scores, v) == Cardinality({j \in 1..Len(scores) : scores[j] > v})

\* C2: the list scoreAndRankRecommendations returns holds the scored
\* candidates ordered by score non-increasing, and the 3 that
\* generateRecommendations returns are the 3 highest-scoring of all the
\* candidates it generated
C2_SortedTopThree ==
  /\ op = "scoreAndRankRecommendations" =>
       LET scored == [j \in 1..Len(candidates) |->
                       scoreRecommendation(candidates[j], features, rallyState, weights)]
       IN  /\ Len(result) = Len(scored)
           /\ SortedByScoreDesc(result)
           /\ \A j \in 1..Len(scored) : \E k \in 1..Len(result) : result[k] = scored[j]
  /\ op = "generateRecommendations" =>
       LET scored == CallScored
           scores == [j \in 1..Len(scored) |-> scored[j].score]
       IN  /\ SortedByScoreDesc(result)
           /\ \A k \in 1..Len(result) :
                /\ \E j \in 1..Len(scored) : scored[j] = result[k]
                /\ HigherThan(scores, result[k].score) <= k - 1

C2_Witness ==
  /\ op = "generateRecommendations"
  /\ Len(result) = 3
  /\ result[1].score > result[2].score
  /\ result[2].score > result[3].score
  /\ LET first == scoreRecommendation(CallCandidates[1], features, rallyState,
                                      DEFAULT_SCORING_WEIGHTS)
     IN  first.score < result[3].score

\* C5: the path of every returned recommendation starts at the (x, y) of the
\* shot's contact point and ends at the (x, y) of the centre of its target
\* zone (the middle of the zone's third of the width and of its third of the
\* far half court)
C5_PathEndpoints ==
  op = "generateRecommendations" =>
    \A k \in 1..Len(result) :
      LET p == result[k].pathPolyline
          col == result[k].targetZone % 3
          row == result[k].targetZone \div 3
      IN  /\ Len(p) >= 2
          /\ p[1].x = shot.trajectorySlice[1].x
          /\ p[1].y = shot.trajectorySlice[1].y
          /\ 6 * p[Len(p)].x = (2 * col + 1) * CoordScale
          /\ 12 * p[Len(p)].y = 6 * CoordScale + (2 * row + 1) * CoordScale

C5_Witness ==
  /\ op = "generateRecommendations"
  /\ shot.trajectorySlice # MockSlice
  /\ Len(result) = 3
  /\ result[1].targetZone = 8
  /\ result[1].pathPolyline[1].x = 50
  /\ result[1].pathPolyline[1].y = 30

----------------------------------------------------------------------------
(* Properties of the scoring engine *)

NonNegative(w) ==
  /\ w.movementPressure >= 0
  /\ w.openCourt >= 0
  /\ w.riskUnderPressure >= 0
  /\ w.angleExposure >= 0

\* C3: every score scoreRecommendation produces lies in [0, 100], for every
\* candidate, features, rally state and weight set
C3_ScoreRange ==
  op = "scoreRecommendation" => result[1].score >= 0 /\ result[1].score <= 100

\* the weighted sum leaves [0, 100] on both sides and the clamp brings it back
C3_Witness ==
  /\ op = "scoreRecommendation"
  /\ weights.movementPressure = 1000
  /\ result[1].score = 100
  /\ ClampedScore(candidates[1], features, rallyState, weights) = MAX_SCORE * FactorScale

\* C4: every confidence lies in [0.5, 1], for every shot type, phase, pressure
\* and recoveryQuality
C4_ConfidenceRange ==
  op = "scoreRecommendation" => result[1].confidence >= 50 /\ result[1].confidence <= 100

C4_Witness ==
  /\ op = "scoreRecommendation"
  /\ rallyState.pressure = 100
  /\ rallyState.phase = "defense"
  /\ candidates[1].shotType = "smash"
  /\ result[1].confidence = 65

\* C9: in defense with pressure >= 0.8 a clear or lift candidate scores at
\* least what a smash candidate to the same target zone scores, whatever the
\* target zone and the features (weights non-negative, as the default ones)
C9_SaferUnderPressure ==
  (/\ op = "scoreRecommendation"
   /\ rallyState.phase = "defense"
   /\ rallyState.pressure >= 80
   /\ candidates[1].shotType = "smash"
   /\ NonNegative(weights)) =>
    \A st \in {"clear", "lift"} :
      scoreRecommendation([candidates[1] EXCEPT !.shotType = st],
                          features, rallyState, weights).score >= result[1].score

C9_Witness ==
  /\ op = "scoreRecommendation"
  /\ rallyState.phase = "defense"
  /\ rallyState.pressure = 80
  /\ candidates[1].shotType = "smash"
  /\ weights = DEFAULT_SCORING_WEIGHTS
  /\ \A st \in {"clear", "lift"} :
       scoreRecommendation([candidates[1] EXCEPT !.shotType = st],
                           features, rallyState, weights).score > result[1].score

----------------------------------------------------------------------------
(* Properties of generateShotPath *)

ContactOfCall == shot.trajectorySlice[1]

TargetOfCall == zoneToPosition(candidates[1].targetZone)

\* C10 as stated: the contact point, five interior points and the centre of
\* the target zone, 7 points in total, the first at height 0.5 and the last
\* at height 0.2
C10_SevenPoints ==
  op = "generateShotPath" =>
    /\ Len(path) = 7
    /\ path[1].x = ContactOfCall.x /\ path[1].y = ContactOfCall.y
    /\ 2 * path[1].z = HeightScale
    /\ path[Len(path)].x = TargetOfCall.x /\ path[Len(path)].y = TargetOfCall.y
    /\ 10 * path[Len(path)].z = 2 * HeightScale

\* C10 as amended: the contact point, four interior points at t = 1/5 .. 4/5
\* interpolated linearly in (x, y), and the centre of the target zone, 6 points
\* in total; the first at height 0.5, the last at height 0.2
C10_SixPoints ==
  op = "generateShotPath" =>
    /\ Len(path) = 6
    /\ path[1].x = ContactOfCall.x /\ path[1].y = ContactOfCall.y
    /\ 2 * path[1].z = HeightScale
    /\ \A i \in 1..4 :
         /\ 5 * (path[i + 1].x - ContactOfCall.x) = i * (TargetOfCall.x - ContactOfCall.x)
         /\ 5 * (path[i + 1].y - ContactOfCall.y) = i * (TargetOfCall.y - ContactOfCall.y)
    /\ path[6].x = TargetOfCall.x /\ path[6].y = TargetOfCall.y
    /\ 10 * path[6].z = 2 * HeightScale

C10_Witness ==
  /\ op = "generateShotPath"
  /\ ContactOfCall.x = 0 /\ ContactOfCall.y = 100
  /\ candidates[1].targetZone = 8
  /\ candidates[1].shotType = "clear"
  /\ Len(path) = 6
  /\ path[3].x = 100 /\ path[3].y = 170

----------------------------------------------------------------------------
(* Properties of the rally entry points *)

\* C6: analyzeRally on a trajectory of fewer than 2 points (the empty one
\* included) returns a well-formed result with no shots, totalShots 0,
\* dominantPhase 'neutral', averagePressure 0.5 and no key moments
C6_InsufficientData ==
  Len(trajectory) < 2 =>
    \A i \in 1..Len(runs) :
      LET r == runs[i]
      IN  /\ DOMAIN r = {"sessionId", "rallyId", "shots", "summary", "metadata"}
          /\ r.sessionId = "session"
          /\ r.shots = <<>>
          /\ r.summary.totalShots = 0
          /\ r.summary.dominantPhase = "neutral"
          /\ r.summary.averagePressure = 50 * 100
          /\ r.summary.keyMoments = <<>>
          /\ r.metadata.engineVersion = ENGINE_VERSION

C6_Witness ==
  /\ op = "analyzeRally"
  /\ Len(trajectory) = 1
  /\ Len(runs) >= 1
  /\ runs[1].summary.totalShots = 0

\* C7: generateRecommendationsForShot returns the empty list for every index
\* below 0 or not below the number of segmented shots, and for every other
\* index the three recommendations generated for that shot: its state,
\* its features and its contact point
C7_ShotIndexRange ==
  op = "generateRecommendationsForShot" =>
    LET shots == segmentShots(trajectory)
    IN  IF shotIndex < 0 \/ shotIndex >= Len(shots)
        THEN result = <<>>
        ELSE LET sh == shots[shotIndex + 1]
                 state == computeRallyState(shots, shotIndex, opponentPosition)
                 feats == extractShotFeatures(sh, state)
             IN  /\ sh.shotIndex = shotIndex
                 /\ result = generateRecommendations(sh, feats, state, clock, random)
                 /\ Len(result) = 3
                 /\ \A i \in 1..Len(result) :
                      /\ result[i].pathPolyline[1].x = sh.trajectorySlice[1].x
                      /\ result[i].pathPolyline[1].y = sh.trajectorySlice[1].y

\* an in-range index that is not the first shot
C7_Witness ==
  /\ op = "generateRecommendationsForShot"
  /\ shotIndex = 1
  /\ Len(segmentShots(trajectory)) = 2
  /\ Len(result) = 3

\* an analysis without its opaque ids and its wall-clock metadata
WithoutIdsAndClock(r) ==
  [sessionId |-> r.sessionId,
   shots |-> [k \in 1..Len(r.shots) |->
                [shot |-> r.shots[k].shot,
                 features |-> r.shots[k].features,
                 recommendations |->
                   [i \in 1..Len(r.shots[k].recommendations) |->
                      LET rec == r.shots[k].recommendations[i]
                      IN  [shotType |-> rec.shotType, targetZone |-> rec.targetZone,
                           pathPolyline |-> rec.pathPolyline, score |-> rec.score,
                           rationale |-> rec.rationale, confidence |-> rec.confidence]]]],
   summary |-> r.summary,
   engineVersion |-> r.metadata.engineVersion]

\* C8: two analyzeRally calls on the same arguments return results equal in
\* every field but rallyId, the recommendation ids, processedAt and
\* processingTimeMs, whatever the clock and the random source return
C8_Determinism ==
  \A i, j \in 1..Len(runs) : WithoutIdsAndClock(runs[i]) = WithoutIdsAndClock(runs[j])

\* two calls under different readings of the clock and the random source that
\* analysed two shots
C8_Witness ==
  /\ Len(runs) >= 2
  /\ runs[1].rallyId # runs[2].rallyId
  /\ Len(runs[1].shots) = 2
  /\ runs[1].shots[1].recommendations[1].id # runs[2].shots[1].recommendations[1].id

----------------------------------------------------------------------------
(* Properties of the zone mapper *)

\* two zones of the 3x3 grid with a common edge
SharesGridEdge(a, b) ==
  \/ Abs(a - b) = 3
  \/ Abs(a - b) = 1 /\ a \div 3 = b \div 3

\* C11: isAdjacentZone is true for a zone and itself, for two zones sharing a
\* grid edge and for the centre zone 4 with every zone, and false for the
\* corner pairs (0, 8) and (2, 6)
C11_AdjacencyTable ==
  op = "isAdjacentZone" =>
    /\ args.a = args.b => ret
    /\ SharesGridEdge(args.a, args.b) => ret
    /\ args.a = 4 => ret
    /\ <<args.a, args.b>> \in {<<0, 8>>, <<2, 6>>} => ~ret

\* the centre zone with a corner: adjacent without a common edge
C11_Witness ==
  /\ op = "isAdjacentZone"
  /\ args.a = 4
  /\ args.b = 8
  /\ ret

\* C12: findOpenCourtZones returns exactly the corners 0, 2, 6, 8 without an
\* opponent position, and with one exactly the zones that are neither the
\* opponent's zone nor adjacent to it: none at all for an opponent in zone 4
C12_OpenCourtZones ==
  op = "findOpenCourtZones" =>
    LET open == {ret[i] : i \in 1..Len(ret)}
    IN  /\ Cardinality(open) = Len(ret)
        /\ IF args.position = NoPosition
           THEN open = {0, 2, 6, 8}
           ELSE LET zone == positionToZone(args.position.x, args.position.y)
                IN  /\ open = {z \in Zones : z # zone /\ ~isAdjacentZone(z, zone)}
                    /\ zone = 4 => ret = <<>>

\* an opponent in a corner leaves zones open
C12_Witness ==
  /\ op = "findOpenCourtZones"
  /\ args.position = ZONE_CENTERS[8]
  /\ ret = <<0, 1, 2, 3, 6>>

----------------------------------------------------------------------------
(* Properties of the shot segmenter *)

\* C13: segmentShots returns no segment for fewer than 2 points, and every
\* segment it returns holds at least 2 points; the merge pass leaves no
\* segment of fewer than 2 points wherever the decision points fall
C13_NoShortSegment ==
  /\ op = "segmentShots" =>
       /\ Len(trajectory) < 2 => ret = <<>>
       /\ \A k \in 1..Len(ret) : Len(ret[k].trajectorySlice) >= 2
  /\ op = "mergeShortSegments" =>
       \A k \in 1..Len(ret) : ret[k].hi - ret[k].lo + 1 >= 2

\* a trajectory whose last point is a decision point: the one-point trail-out
\* is folded into the segment before it
C13_Witness ==
  /\ op = "segmentShots"
  /\ Len(RawSegments(trajectory)) = 3
  /\ \E k \in 1..3 : RawSegments(trajectory)[k].hi = RawSegments(trajectory)[k].lo
  /\ Len(ret) = 2

\* C14: the shots of every analyzeRally result are numbered by their position,
\* shots[i].shot.shotIndex = i, also when short segments were merged
C14_SequentialIndex ==
  \A i \in 1..Len(runs) :
    \A k \in 1..Len(runs[i].shots) : runs[i].shots[k].shot.shotIndex = k - 1

\* two shots left of three raw segments
C14_Witness ==
  /\ op = "analyzeRally"
  /\ Len(RawSegments(trajectory)) = 3
  /\ Len(runs[1].shots) = 2
  /\ runs[1].shots[2].shot.shotIndex = 1

----------------------------------------------------------------------------
(* Properties of the rally state machine *)

AttackingType(t) == t \in {"smash", "drop", "net"}

PressureAtGap(gap) ==
  computeRallyState(MockShots(args.types, args.startY, gap), args.idx, args.position).pressure

TimePressureSaturated(gap) == 50000 \div gap >= 100

C17_DominantPhase ==
  op = "getDominantPhase" =>
    LET count(ph) == Cardinality({k \in 1..Len(args.states) : args.states[k].phase = ph})
        wins(ph) == \A other \in Phases \ {ph} : count(ph) > count(other)
    IN  /\ \A ph \in Phases : wins(ph) => ret = ph
        /\ (\A ph \in Phases : ~wins(ph)) => ret = "neutral"

\* attack and defense tied ahead of neutral
C17_Witness ==
  /\ op = "getDominantPhase"
  /\ Len(args.states) = 4
  /\ args.states[1].phase = "attack"
  /\ args.states[2].phase = "defense"
  /\ args.states[3].phase = "defense"
  /\ args.states[4].phase = "attack"
  /\ ret = "neutral"

----------------------------------------------------------------------------
(* Properties of the scoring factors *)

\* C18: calculateOpenCourtScore is at least 0.8 for a target among the open
\* zones (1.0 for the corners 0, 2, 6, 8); for any other target it is 0.4
\* exactly when the target shares a grid edge with an open zone, and 0.1
\* otherwise: consecutive zones of different rows, 2 and 3 or 5 and 6, are
\* not adjacent
C18_GridAdjacency ==
  op = "calculateOpenCourtScore" =>
    LET open == {args.openCourtZones[i] : i \in 1..Len(args.openCourtZones)}
    IN  IF args.targetZone \in open
        THEN /\ ret >= 8 * (FactorScale \div 10)
             /\ args.targetZone \in {0, 2, 6, 8} => ret = FactorScale
        ELSE IF \E z \in open : SharesGridEdge(args.targetZone, z)
             THEN ret = 4 * (FactorScale \div 10)
             ELSE ret = FactorScale \div 10

----------------------------------------------------------------------------
(* Properties of the candidate set *)

\* C19: in every list generateRecommendations returns, a smash or a clear
\* appears only for a contact zone of the mid or back third (zones 3..8), and
\* a net, a push or a lift only for one of the front third (zones 0..2),
\* whatever the phase
C19_DepthFiltered ==
  op = "generateRecommendations" =>
    \A i \in 1..Len(result) :
      /\ result[i].shotType \in {"smash", "clear"} => features.contactZone \in 3..8
      /\ result[i].shotType \in {"net", "push", "lift"} => features.contactZone \in 0..2

----------------------------------------------------------------------------
(* Properties of the score *)

\* C20: the risk penalty is taken off only when the pressure is strictly above
\* the attack threshold: at or below it, candidates with the same target zone
\* and the same angle exposure score the same whatever their shot types; above
\* it the score is BASE_SCORE + movement*w1 + openCourt*w2 - risk*w3 - angle*w4,
\* clamped and rounded
C20_RiskOnlyUnderPressure ==
  op = "scoreRecommendation" =>
    LET rec == candidates[1]
        movement == calculateMovementPressureScore(rec.targetZone, features)
        openCourt == calculateOpenCourtScore(rec.targetZone, rallyState)
        risk == assessShotRisk(rec.shotType, rallyState)
        angle == calculateAngleExposure(rec.targetZone, rec.shotType)
        unclamped == BASE_SCORE * FactorScale + movement * weights.movementPressure
                     + openCourt * weights.openCourt - risk * weights.riskUnderPressure
                     - angle * weights.angleExposure
    IN  IF rallyState.pressure <= PRESSURE_THRESHOLDS.attack
        THEN \A st \in ShotTypes :
               calculateAngleExposure(rec.targetZone, st) = angle =>
                 scoreRecommendation([rec EXCEPT !.shotType = st], features, rallyState,
                                     weights).score = result[1].score
        ELSE result[1].score =
               Round(Clamp(MIN_SCORE * FactorScale, unclamped, MAX_SCORE * FactorScale),
                     FactorScale)

\* at the threshold itself a smash scores what a clear to the same zone
\* scores, and just above it it scores less
C20_Witness ==
  /\ op = "scoreRecommendation"
  /\ rallyState.pressure = PRESSURE_THRESHOLDS.attack
  /\ weights = DEFAULT_SCORING_WEIGHTS
  /\ candidates[1].shotType = "smash"
  /\ candidates[1].targetZone = 0
  /\ assessShotRisk("smash", rallyState) > assessShotRisk("clear", rallyState)
  /\ result[1].score = scoreRecommendation([candidates[1] EXCEPT !.shotType = "clear"],
                                           features, rallyState, weights).score
  /\ result[1].score >
       scoreRecommendation(candidates[1], features,
                           [rallyState EXCEPT !.pressure = PRESSURE_THRESHOLDS.attack + 10],
                           weights).score

----------------------------------------------------------------------------
(* Properties of the rationale *)

\* what the factor behind a rationale entry adds to the score of the scored
\* candidate (negative: what it takes off), as a numerator over FactorScale
ScoreContribution(type) ==
  LET rec == candidates[1]
  IN  IF type = "movement_pressure"
      THEN calculateMovementPressureScore(rec.targetZone, features) * weights.movementPressure
      ELSE IF type = "open_court"
      THEN calculateOpenCourtScore(rec.targetZone, rallyState) * weights.openCourt
      ELSE IF type = "risk_reduction"
      THEN (IF rallyState.pressure > PRESSURE_THRESHOLDS.attack
            THEN 0 - assessShotRisk(rec.shotType, rallyState) * weights.riskUnderPressure
            ELSE 0)
      ELSE IF type = "angle_denial"
      THEN 0 - calculateAngleExposure(rec.targetZone, rec.shotType) * weights.angleExposure
      ELSE 0

\* C21: under the default weights every rationale entry has an impact in
\* [-1, 1], positive only if its factor added to the score of the
\* recommendation and negative only if its factor took from it
C21_ImpactSigns ==
  op = "scoreRecommendation" /\ weights = DEFAULT_SCORING_WEIGHTS =>
    \A i \in 1..Len(result[1].rationale) :
      LET entry == result[1].rationale[i]
      IN  /\ entry.impact >= 0 - FactorScale
          /\ entry.impact <= FactorScale
          /\ entry.impact > 0 => ScoreContribution(entry.type) > 0
          /\ entry.impact < 0 => ScoreContribution(entry.type) < 0

----------------------------------------------------------------------------
(* Ranking of equal scores *)

\* the place of the i-th scored candidate in a stable descending ranking: one
\* more than the number of candidates that score higher, or score the same and
\* were generated earlier
StableRank(scored, i) ==
  1 + Cardinality({j \in 1..Len(scored) :
                     \/ scored[j].score > scored[i].score
                     \/ scored[j].score = scored[i].score /\ j < i})

\* C22: candidates of equal score are ranked in generation order (shot types in
\* the outer loop, capped target zones in the inner loop), so the earlier one
\* wins the place in the top 3
C22_StableTies ==
  /\ op = "generateRecommendations" =>
       LET scored == CallScored
       IN  \A i \in 1..Len(scored) :
             LET k == StableRank(scored, i)
             IN  k <= 3 => result[k] = scored[i]
  /\ op = "scoreAndRankRecommendations" =>
       LET scored == [i \in 1..Len(candidates) |->
                        scoreRecommendation(candidates[i], features, rallyState, weights)]
       IN  \A i \in 1..Len(scored) : result[StableRank(scored, i)] = scored[i]

\* two candidates of equal score compete for the last place in the top 3
C22_Witness ==
  /\ op = "generateRecommendations"
  /\ LET scored == CallScored
     IN  \E i, j \in 1..Len(scored) :
           /\ i < j
           /\ scored[i].score = scored[j].score
           /\ StableRank(scored, i) = 3
           /\ result[3] = scored[i]

----------------------------------------------------------------------------
(* Target zones of the recommendations *)

\* the place of zone z in the list of the open zones (in their order) followed
\* by the other zones of 0..8 in ascending order
PlaceInTargetList(z, open) ==
  IF Includes(open, z)
  THEN CHOOSE i \in 1..Len(open) : open[i] = z /\ \A j \in 1..(i - 1) : open[j] # z
  ELSE Len(open) + Cardinality({y \in 0..(z - 1) : ~Includes(open, y)}) + 1

\* C23: every recommendation of generateRecommendations targets one of the first
\* five zones of the list of the open zones followed by the other zones in
\* ascending order; so each target is in 0..8, and no zone that is not open is
\* recommended when five or more are open
C23_FirstFiveZones ==
  op = "generateRecommendations" =>
    \A k \in 1..Len(result) :
      /\ result[k].targetZone \in 0..8
      /\ PlaceInTargetList(result[k].targetZone, rallyState.openCourtZones) <= 5
      /\ Len(rallyState.openCourtZones) >= 5 =>
           Includes(rallyState.openCourtZones, result[k].targetZone)

\* six zones are open, and the one left out by the cap is among them
C23_Witness ==
  /\ op = "generateRecommendations"
  /\ Len(rallyState.openCourtZones) = 6
  /\ Len(result) = 3
  /\ \A k \in 1..3 : Includes(rallyState.openCourtZones, result[k].targetZone)
  /\ \A k \in 1..3 : result[k].targetZone # rallyState.openCourtZones[6]

\* C25: when some zone is open, at least one of the recommendations of
\* generateRecommendations targets an open zone
C25_SomeOpenTarget ==
  op = "generateRecommendations" /\ rallyState.openCourtZones # <<>> =>
    \E k \in 1..Len(result) : Includes(rallyState.openCourtZones, result[k].targetZone)

----------------------------------------------------------------------------
(* Confidence *)

\* the canonical tactic of a phase: smash, drop or net in attack, clear or lift
\* in defense
CanonicalTactic(phase, shotType) ==
  \/ phase = "attack" /\ shotType \in {"smash", "drop", "net"}
  \/ phase = "defense" /\ shotType \in {"clear", "lift"}

\* clamp(0.75 + a - b + c, 0.5, 1) in hundredths
ExpectedConfidence(shotType, rs, f) ==
  LET a == IF CanonicalTactic(rs.phase, shotType) THEN 10 ELSE 0
      b == IF rs.pressure > PRESSURE_THRESHOLDS.defense THEN 10 ELSE 0
      c == IF f.recoveryQuality < 30 THEN 5 ELSE 0
  IN  Clamp(50, 75 + a - b + c, 100)

----------------------------------------------------------------------------
(* Arguments of the scoring and generating calls *)

\* C26: scoreAndRankRecommendations leaves the candidate array in its order and
\* every candidate with its score, rationale and confidence, and
\* generateRecommendations leaves shot, features and rallyState (its
\* openCourtZones) as they were, so that a second call on the same arguments
\* returns what the first one did
C26_InputsUnchanged ==
  [][/\ op' = "scoreAndRankRecommendations" =>
          /\ candidates' = candidates
          /\ features' = features /\ rallyState' = rallyState /\ weights' = weights
          /\ scoreAndRankRecommendations(candidates', features', rallyState', weights')
               = result'
     /\ op' = "generateRecommendations" =>
          /\ shot' = shot /\ features' = features /\ rallyState' = rallyState
          /\ generateRecommendations(shot', features', rallyState', clock', random')
               = result']_vars

\* the ranking differs from the order of the candidates, which are still
\* unscored and in the order they were passed in
C26_Witness ==
  /\ op = "scoreAndRankRecommendations"
  /\ Len(candidates) > 3
  /\ \A i \in 1..Len(candidates) :
       candidates[i].score = 0 /\ candidates[i].rationale = <<>>
  /\ \E i \in 1..Len(candidates) :
       result[i].id # candidates[i].id /\ result[i].score > 0
  /\ candidates = MixedCandidates(features.landingZone)

----------------------------------------------------------------------------
(* The single-shot query and the full analysis *)

\* the ordered (shotType, targetZone, score) of a list of recommendations
RankedTriples(recs) ==
  [i \in 1..Len(recs) |->
     [shotType |-> recs[i].shotType, targetZone |-> recs[i].targetZone,
      score |-> recs[i].score]]

\* C27: without pose timestamps and opponent data,
\* generateRecommendationsForShot(trajectory, i) returns for every valid index i
\* the same ordered (shotType, targetZone, score) as
\* analyzeRally(sessionId, trajectory).shots[i].recommendations
C27_SingleShotAgrees ==
  op = "generateRecommendationsForShot" /\ opponentPosition = NoPosition =>
    \A env \in EnvInputs :
      LET analysis == analyzeRally("session", trajectory, env)
      IN  shotIndex >= 0 /\ shotIndex < Len(analysis.shots) =>
            RankedTriples(result)
              = RankedTriples(analysis.shots[shotIndex + 1].recommendations)

\* the second shot of a rally, whose state is not the one it would have as the
\* only shot
C27_Witness ==
  /\ op = "generateRecommendationsForShot"
  /\ opponentPosition = NoPosition
  /\ shotIndex = 1
  /\ Len(result) = 3
  /\ LET shots == segmentShots(trajectory)
     IN  /\ Len(shots) = 2
         /\ computeRallyState(shots, 1, NoPosition)
              # computeRallyState(<<shots[2]>>, 0, NoPosition)
         /\ RankedTriples(result) #
              RankedTriples(generateRecommendationsForShot(trajectory, 0, NoPosition,
                                                           [now |-> clock, rnd |-> random]))

----------------------------------------------------------------------------
(* The rally summary *)

\* the indices below n whose rally state has a pressure above 0.7, ascending
RECURSIVE HighPressureIndices(_, _, _)
HighPressureIndices(shots, k, n) ==
  IF k >= n THEN <<>>
  ELSE (IF computeRallyState(shots, k, NoPosition).pressure > 70 THEN <<k>> ELSE <<>>)
       \o HighPressureIndices(shots, k + 1, n)

\* C28: in every analyzeRally result summary.totalShots is the number of
\* shots, every shot carries exactly 3 recommendations, and summary.keyMoments
\* lists, in ascending order, exactly the shot indices whose rally-state
\* pressure strictly exceeds 0.7, each below totalShots
C28_SummaryConsistent ==
  \A i \in 1..Len(runs) :
    LET r == runs[i]
        keyMoments == r.summary.keyMoments
    IN  /\ r.summary.totalShots = Len(r.shots)
        /\ \A k \in 1..Len(r.shots) : Len(r.shots[k].recommendations) = 3
        /\ keyMoments = HighPressureIndices(segmentShots(trajectory), 0, Len(r.shots))
        /\ \A k \in 1..Len(keyMoments) :
             /\ keyMoments[k] >= 0
             /\ keyMoments[k] < r.summary.totalShots
             /\ k > 1 => keyMoments[k - 1] < keyMoments[k]
             /\ r.shots[keyMoments[k] + 1].features.rallyState.pressure > 70

\* a rally of two shots of which only the second is a key moment
C28_Witness ==
  /\ op = "analyzeRally"
  /\ Len(runs) >= 1
  /\ runs[1].summary.totalShots = 2
  /\ runs[1].summary.keyMoments = <<1>>
  /\ runs[1].shots[1].features.rallyState.pressure <= 70

----------------------------------------------------------------------------
(* Properties of the PlaybackEngine *)

\* C29: whatever play, pause, toggle, setSpeed, setActiveView, step, reset and
\* updatePlaybackTime calls were made (timestamps never decreasing), t is
\* within [0, 1], and right after an updatePlaybackTime call made while
\* playing t is strictly below 1
C29_NormalizedTime ==
  /\ engine.t >= 0
  /\ engine.t <= PlaybackScale
  /\ op = "updatePlaybackTime" /\ args.engine.playing =>
       /\ engine.t < PlaybackScale
       /\ ret = <<engine.t>>

\* an update while playing that reaches 1 and loops back to 0
C29_Witness ==
  /\ op = "updatePlaybackTime"
  /\ args.engine.playing
  /\ args.engine.t > 0
  /\ args.engine.lastTimestamp > 0
  /\ args.engine.t + (args.timestamp - args.engine.lastTimestamp) * args.engine.timeScale
       = PlaybackScale
  /\ engine.t = 0

\* t after an increment, looping back to 0 on reaching 1
Advanced(t, increment) ==
  IF t + increment >= PlaybackScale THEN 0 ELSE t + increment

\* C30: an updatePlaybackTime call made while paused leaves t as it is and
\* records its timestamp; the first update after play() then advances t by
\* (timestamp - timestamp of the previous update call) * timeScale / 10000,
\* not by the time spent paused; the first update after createPlaybackEngine
\* or reset advances t by 0
C30_PausedTimeNotCounted ==
  op = "updatePlaybackTime" =>
    LET before == args.engine
        previous == args.previousUpdate
    IN  /\ ~before.playing =>
             engine.t = before.t /\ engine.lastTimestamp = args.timestamp
        /\ before.playing /\ previous # NoUpdate /\ previous.paused =>
             engine.t = Advanced(before.t,
                                 (args.timestamp - previous.timestamp) * before.timeScale)
        /\ before.playing /\ previous = NoUpdate =>
             engine.t = Advanced(before.t, 0)

====
